---- MODULE Spec2Model ----
\* Shape algebra and generic optimizer of the query planner (query/shape,
\* query/shape/gshape) together with the iterators the shapes build
\* (graph/iterator).  Shapes are records tagged by the field k; a Go slice is
\* modelled with its backing array so that in-place writes are visible to the
\* caller that handed the slice in.
EXTENDS Integers, Sequences, FiniteSets, TLC

VARIABLES
    shape,   \* the shape handed to Optimize (or to AddFilters)
    optimizer, \* the Optimizer handed to Optimize
    res,     \* what the call returned, and the receiver as seen after it
    res2,    \* what optimizing the returned shape once more returned
    srows,   \* the rows drained from the iterator of shape
    orows,   \* the rows drained from the iterator of the optimized shape
    fs,      \* the filters handed to AddFilters
    stage,
    iter,    \* the iterator under call
    fresh,   \* the same iterator as it was constructed
    log      \* the calls made on iter so far and what each returned

vars == <<shape, optimizer, res, res2, srows, orows, fs, stage, iter, fresh, log>>

\* ---------------------------------------------------------------- bounds
\* number of node refs of the store (refs are 1..MaxRef)
MaxRef == 2
\* largest skip / limit of a Page
MaxPage == 2
\* largest number of members of an Intersect, a Union or an Optional list
MaxMembers == 3

Refs == 1..MaxRef
TagNames == {"a", "b"}
Directions == {"s", "p", "o", "l"}

\* ---------------------------------------------------------------- shapes
\* a nil Shape interface value
Nil == [k |-> "nil"]
\* the outcome of a call that panics (method call on a nil interface)
Panic == [k |-> "panic"]
Null == [k |-> "Null"]
AllNodes == [k |-> "AllNodes"]
Fixed(v) == [k |-> "Fixed", v |-> v]
FixedTags(tags, on) == [k |-> "FixedTags", tags |-> tags, on |-> on]
Union(m) == [k |-> "Union", m |-> m]
Page(from, skip, limit) == [k |-> "Page", from |-> from, skip |-> skip, limit |-> limit]
Unique(from) == [k |-> "Unique", from |-> from]
Save(tags, from) == [k |-> "Save", tags |-> tags, from |-> from]
Intersect(m) == [k |-> "Intersect", m |-> m]
IntersectOptional(i, o) == [k |-> "IntersectOptional", i |-> i, o |-> o]
QuadFilter(dir, values) == [dir |-> dir, values |-> values]
Quads(q) == [k |-> "Quads", q |-> q]
NodesFrom(dir, quads) == [k |-> "NodesFrom", dir |-> dir, quads |-> quads]
QuadsAction(size, result, save, filter) ==
    [k |-> "QuadsAction", size |-> size, result |-> result, save |-> save, filter |-> filter]
Materialize(size, values) == [k |-> "Materialize", size |-> size, values |-> values]
\* the shapes of the nosql store: a query of the nodes collection and a
\* query of quads by links
NosqlShape(limit) == [k |-> "NosqlShape", limit |-> limit]
NosqlQuads(links, limit) == [k |-> "NosqlQuads", links |-> links, limit |-> limit]

IsNull(s) == s.k = "nil" \/ s.k = "Null"

\* Lookup: the nodes of the given values; ValuesToRefs and RefsToValues pass
\* between the refs of a store and their values
Lookup(v) == [k |-> "Lookup", v |-> v]
ValuesToRefs(values) == [k |-> "ValuesToRefs", values |-> values]
RefsToValues(refs) == [k |-> "RefsToValues", refs |-> refs]
\* value shapes (ValShape): a value filter is named by an identifier
NullV == [k |-> "NullV"]
Values(v) == [k |-> "Values", v |-> v]
Filter(from, filters) == [k |-> "Filter", from |-> from, filters |-> filters]
IsNullExpr(s) == s.k = "nil" \/ s.k = "NullV"

\* a Go map with no entry (nil or empty)
EmptyMap == [x \in {} |-> 0]
\* for k, v := range m2 { m1[k] = v }
MapMerge(m1, m2) ==
    [x \in (DOMAIN m1) \cup (DOMAIN m2) |-> IF x \in DOMAIN m2 THEN m2[x] ELSE m1[x]]
MapSet(m, key, v) == [x \in (DOMAIN m) \cup {key} |-> IF x = key THEN v ELSE m[x]]

\* ---------------------------------------------------------------- optimizers
NilOptimizer == [k |-> "nil"]
\* an Optimizer that rewrites nothing
DumbOptimizer == [k |-> "dumb"]
\* a store that rewrites no shape itself and keeps an index of its quads
\* (it is a QuadIndexer)
IndexOptimizer == [k |-> "index"]
\* the nosql QuadStore, an Optimizer with rewrites of its own
NosqlOptimizer == [k |-> "nosql"]
OptimizeExpr(r, s) == [sout |-> s, opt |-> FALSE]
OptimizeValShape(r, s) == [sout |-> s, opt |-> FALSE]

\* ---------------------------------------------------------------- slices
\* A slice during a call: a is the backing array it points into, n its length,
\* shared tells whether a still is the array of the caller, caller is the
\* caller's array as the caller sees it.
SliceOf(arr) == [a |-> arr, n |-> Len(arr), shared |-> TRUE, caller |-> arr]
Elems(sl) == SubSeq(sl.a, 1, sl.n)
\* arr := make(T, len(s)); copy(arr, s); s = arr
CopyOf(sl) == [sl EXCEPT !.a = Elems(sl), !.shared = FALSE]
\* what the caller sees after its array was written through a slice sharing it
Through(sl, na) ==
    IF sl.shared
    THEN [j \in 1..Len(sl.caller) |-> IF j <= Len(na) THEN na[j] ELSE sl.caller[j]]
    ELSE sl.caller
\* s[i] = v  (i counted from 1)
SetAt(sl, i, v) ==
    LET na == [sl.a EXCEPT ![i] = v]
    IN  [sl EXCEPT !.a = na, !.caller = Through(sl, na)]
\* s = append(s[:i-1], s[i:]...)  removes element i (counted from 1) in place
RemoveAt(sl, i) ==
    LET na == [j \in 1..Len(sl.a) |->
                 IF j >= i /\ j < sl.n THEN sl.a[j + 1] ELSE sl.a[j]]
    IN  [sl EXCEPT !.a = na, !.n = sl.n - 1, !.caller = Through(sl, na)]
\* s = append(s, xs...): in place while the capacity lasts, else a new array
AppendTo(sl, xs) ==
    IF Len(xs) = 0 THEN sl
    ELSE IF sl.n + Len(xs) <= Len(sl.a)
    THEN LET na == [j \in 1..Len(sl.a) |->
                      IF j > sl.n /\ j <= sl.n + Len(xs) THEN xs[j - sl.n] ELSE sl.a[j]]
         IN  [sl EXCEPT !.a = na, !.n = sl.n + Len(xs), !.caller = Through(sl, na)]
    ELSE [sl EXCEPT !.a = Elems(sl) \o xs, !.n = sl.n + Len(xs), !.shared = FALSE]

\* the result of a call s.Optimize(r): the shape returned, the flag returned,
\* and arg, the receiver as its caller sees it after the call
Ret(sout, opt, arg) == [sout |-> sout, opt |-> opt, arg |-> arg]
Panicked(arg) == Ret(Panic, FALSE, arg)

\* ---------------------------------------------------------------- Optimize
RECURSIVE Optimize(_, _)
RECURSIVE UnionOptimizeSubs(_, _, _, _)
RECURSIVE IntersectOptimizeSubs(_, _, _, _)
RECURSIVE IntersectSecondPass(_)
RECURSIVE IntersectOptionalLoop(_, _, _, _)
RECURSIVE QuadsOptimizeLoop(_, _)
RECURSIVE NodesFromOptimize(_, _)
RECURSIVE Simplify(_)
RECURSIVE OptimizeShape(_, _)

\* nosql optimizeQuads: the filters on a single node hash become links; the
\* shape built from them is dropped and s is returned with opt = true
optimizeQuads(s) ==
    LET links == SelectSeq(s.q, LAMBDA f : f.values.k = "Fixed" /\ Len(f.values.v) = 1)
    IN  IF Len(links) = 0 THEN [sout |-> s, opt |-> FALSE]
        ELSE [sout |-> s, opt |-> TRUE]

\* nosql optimizePage: a limit over all nodes or over a query of the store
\* moves into the query
optimizePage(s) ==
    IF s.skip # 0 THEN [sout |-> s, opt |-> FALSE]
    ELSE CASE s.from.k = "AllNodes" -> [sout |-> NosqlShape(s.limit), opt |-> FALSE]
           [] s.from.k \in {"NosqlShape", "NosqlQuads"} ->
                [sout |-> [s.from EXCEPT !.limit = s.limit], opt |-> TRUE]
           [] OTHER -> [sout |-> s, opt |-> FALSE]

\* Optimizer.OptimizeShape: of the nosql store, and of the stores that
\* rewrite nothing
OptimizeShape(r, s) ==
    IF r # NosqlOptimizer THEN [sout |-> s, opt |-> FALSE]
    ELSE CASE s.k = "Quads" -> optimizeQuads(s)
           [] s.k = "Page" -> optimizePage(s)
           [] s.k = "QuadsAction" ->
                LET o == Optimize(r, Simplify(s))
                IN  IF o.opt THEN [sout |-> o.sout, opt |-> TRUE]
                    ELSE [sout |-> s, opt |-> FALSE]
           [] OTHER -> [sout |-> s, opt |-> FALSE]

NullOptimize(r, s) ==
    IF r # NilOptimizer
    THEN LET o == OptimizeShape(r, s) IN Ret(o.sout, o.opt, s)
    ELSE Ret(Nil, TRUE, s)

AllNodesOptimize(r, s) ==
    IF r # NilOptimizer
    THEN LET o == OptimizeShape(r, s) IN Ret(o.sout, o.opt, s)
    ELSE Ret(s, FALSE, s)

FixedOptimize(r, s) ==
    IF Len(s.v) = 0 THEN Ret(Nil, TRUE, s)
    ELSE IF r # NilOptimizer
    THEN LET o == OptimizeShape(r, s) IN Ret(o.sout, o.opt, s)
    ELSE Ret(s, FALSE, s)

FixedTagsOptimize(r, s) ==
    IF IsNull(s.on) THEN Ret(Nil, TRUE, s)
    ELSE
    LET c   == Optimize(r, s.on)
        arg == [s EXCEPT !.on = c.arg]
        s1  == [s EXCEPT !.on = c.sout]
    IN  IF c.sout = Panic THEN Panicked(arg)
        ELSE IF DOMAIN s.tags = {} THEN Ret(c.sout, TRUE, arg)
        ELSE
        LET merged == c.sout.k = "FixedTags"
            s2 == IF merged
                  THEN FixedTags(MapMerge(s.tags, c.sout.tags), c.sout.on)
                  ELSE s1
            opt == IF merged THEN TRUE ELSE c.opt
        IN  IF r # NilOptimizer
            THEN LET o == OptimizeShape(r, s2) IN Ret(o.sout, opt \/ o.opt, arg)
            ELSE Ret(s2, opt, arg)

\* an ApplyPage that forgets to take the skip off the inner limit
ApplyPageKeepLimit(s, p) ==
    IF s.limit > 0
    THEN IF p.limit > 0 /\ s.limit > p.limit
         THEN Page(s.from, s.skip + p.skip, p.limit)
         ELSE Page(s.from, s.skip + p.skip, s.limit)
    ELSE Page(s.from, s.skip + p.skip, p.limit)

\* Page.ApplyPage: s is the inner page, p the page applied on top of it;
\* Nil stands for the nil *Page
ApplyPage(s, p) ==
    LET skip == s.skip + p.skip
    IN  IF s.limit > 0
        THEN LET l1 == s.limit - p.skip
             IN  IF l1 <= 0 THEN Nil
                 ELSE IF p.limit > 0 /\ l1 > p.limit
                      THEN Page(s.from, skip, p.limit)
                      ELSE Page(s.from, skip, l1)
        ELSE Page(s.from, skip, p.limit)

PageOptimize(r, s) ==
    IF IsNull(s.from) THEN Ret(Nil, TRUE, s)
    ELSE
    LET c   == Optimize(r, s.from)
        arg == [s EXCEPT !.from = c.arg]
        s1  == [s EXCEPT !.from = c.sout]
    IN  IF c.sout = Panic THEN Panicked(arg)
        ELSE IF s.skip <= 0 /\ s.limit <= 0 THEN Ret(c.sout, TRUE, arg)
        ELSE
        LET isPage == c.sout.k = "Page"
            p2 == IF isPage THEN ApplyPage(c.sout, s1) ELSE Nil
        IN  IF isPage /\ p2 = Nil THEN Ret(Nil, TRUE, arg)
            ELSE
            LET s2  == IF isPage THEN p2 ELSE s1
                opt == IF isPage THEN TRUE ELSE c.opt
            IN  IF r # NilOptimizer
                THEN LET o == OptimizeShape(r, s2) IN Ret(o.sout, opt \/ o.opt, arg)
                ELSE Ret(s2, opt, arg)

UniqueOptimize(r, s) ==
    IF IsNull(s.from) THEN Ret(Nil, TRUE, s)
    ELSE
    LET c   == Optimize(r, s.from)
        arg == [s EXCEPT !.from = c.arg]
        s1  == [s EXCEPT !.from = c.sout]
    IN  IF c.sout = Panic THEN Panicked(arg)
        ELSE IF IsNull(c.sout) THEN Ret(Nil, TRUE, arg)
        ELSE IF r # NilOptimizer
        THEN LET o == OptimizeShape(r, s1) IN Ret(o.sout, c.opt \/ o.opt, arg)
        ELSE Ret(s1, c.opt, arg)

SaveOptimize(r, s) ==
    IF IsNull(s.from) THEN Ret(Nil, TRUE, s)
    ELSE
    LET c   == Optimize(r, s.from)
        arg == [s EXCEPT !.from = c.arg]
        s1  == [s EXCEPT !.from = c.sout]
    IN  IF c.sout = Panic THEN Panicked(arg)
        ELSE IF Len(s.tags) = 0 THEN Ret(c.sout, TRUE, arg)
        ELSE IF r # NilOptimizer
        THEN LET o == OptimizeShape(r, s1) IN Ret(o.sout, c.opt \/ o.opt, arg)
        ELSE Ret(s1, c.opt, arg)

MaterializeOptimize(r, s) ==
    IF IsNull(s.values) THEN Ret(Nil, TRUE, s)
    ELSE
    LET c   == Optimize(r, s.values)
        arg == [s EXCEPT !.values = c.arg]
        s1  == [s EXCEPT !.values = c.sout]
    IN  IF c.sout = Panic THEN Panicked(arg)
        ELSE IF r # NilOptimizer
        THEN LET o == OptimizeShape(r, s1) IN Ret(o.sout, c.opt \/ o.opt, arg)
        ELSE Ret(s1, c.opt, arg)

\* ClearFixedTags / clearFixedTags: the members with every FixedTags replaced
\* by what it is on (in a copy), and the tags collected; found tells whether
\* the returned map is non-nil
ClearFixedTags(arr) ==
    LET idx == {i \in 1..Len(arr) : arr[i].k = "FixedTags"}
        RECURSIVE Collect(_, _)
        Collect(i, tags) ==
            IF i > Len(arr) THEN tags
            ELSE IF arr[i].k = "FixedTags"
                 THEN Collect(i + 1, MapMerge(tags, arr[i].tags))
                 ELSE Collect(i + 1, tags)
    IN  [found |-> idx # {},
         arr   |-> [i \in 1..Len(arr) |-> IF i \in idx THEN arr[i].on ELSE arr[i]],
         tags  |-> Collect(1, EmptyMap)]

\* a realloc that forgets the copy
ReallocNever(sl, opt) == sl

\* realloc of Union.Optimize and Intersect.Optimize: copies the slice unless
\* opt is already set
ReallocUnlessOpt(sl, opt) == IF ~opt THEN CopyOf(sl) ELSE sl

\* first loop of Union.Optimize; st = [sl, opt]
UnionOptimizeSubs(r, sl, opt, i) ==
    IF i > sl.n THEN [sl |-> sl, opt |-> opt, panic |-> FALSE]
    ELSE
    LET c == sl.a[i]
    IN  IF c = Nil THEN UnionOptimizeSubs(r, sl, opt, i + 1)
        ELSE
        LET v   == Optimize(r, c)
            sl1 == [sl EXCEPT !.a[i] = v.arg, !.caller[i] = v.arg]
        IN  IF v.sout = Panic THEN [sl |-> sl1, opt |-> opt, panic |-> TRUE]
            ELSE IF ~v.opt THEN UnionOptimizeSubs(r, sl1, opt, i + 1)
            ELSE UnionOptimizeSubs(r, SetAt(ReallocUnlessOpt(sl1, opt), i, v.sout), TRUE, i + 1)

\* second loop of Union.Optimize: remove Null
RECURSIVE UnionRemoveNull(_, _, _)
UnionRemoveNull(sl, opt, i) ==
    IF i > sl.n THEN [sl |-> sl, opt |-> opt]
    ELSE IF IsNull(sl.a[i])
         THEN UnionRemoveNull(RemoveAt(ReallocUnlessOpt(sl, opt), i), TRUE, i + 1)
         ELSE UnionRemoveNull(sl, opt, i + 1)

UnionOptimize(r, s) ==
    LET p1  == UnionOptimizeSubs(r, SliceOf(s.m), FALSE, 1)
        arg1 == Union(p1.sl.caller)
    IN  IF p1.panic THEN Panicked(arg1)
        ELSE IF r # NilOptimizer
        THEN LET o == OptimizeShape(r, Union(Elems(p1.sl)))
             IN  Ret(o.sout, p1.opt \/ o.opt, arg1)
        ELSE
        LET ft == ClearFixedTags(Elems(p1.sl))
        IN  IF ft.found
            THEN LET ns == Optimize(r, FixedTags(ft.tags, Union(ft.arr)))
                 IN  Ret(ns.sout, TRUE, arg1)
            ELSE
            LET p2  == UnionRemoveNull(p1.sl, p1.opt, 1)
                arg == Union(p2.sl.caller)
                m   == Elems(p2.sl)
            IN  IF Len(m) = 0 THEN Ret(Nil, TRUE, arg)
                ELSE IF Len(m) = 1 THEN Ret(m[1], TRUE, arg)
                ELSE Ret(Union(m), p2.opt, arg)

\* first loop of Intersect.Optimize: optimize the members, stop at a Null
IntersectOptimizeSubs(r, sl, opt, i) ==
    IF i > sl.n THEN [sl |-> sl, opt |-> opt, ret |-> "none"]
    ELSE
    LET c == sl.a[i]
    IN  IF IsNull(c) THEN [sl |-> sl, opt |-> opt, ret |-> "null"]
        ELSE
        LET v   == Optimize(r, c)
            sl1 == [sl EXCEPT !.a[i] = v.arg, !.caller[i] = v.arg]
        IN  IF v.sout = Panic THEN [sl |-> sl1, opt |-> opt, ret |-> "panic"]
            ELSE IF ~v.opt THEN IntersectOptimizeSubs(r, sl1, opt, i + 1)
            ELSE IF IsNull(v.sout)
                 THEN [sl |-> ReallocUnlessOpt(sl1, opt), opt |-> TRUE, ret |-> "null"]
                 ELSE IntersectOptimizeSubs(r, SetAt(ReallocUnlessOpt(sl1, opt), i, v.sout),
                                            TRUE, i + 1)

\* remove(&i, optimized) of Intersect.Optimize, on st = [sl, opt, ...]
IntersectRemove(st, optimized) ==
    [st EXCEPT !.sl = RemoveAt(ReallocUnlessOpt(st.sl, st.opt), st.i),
               !.opt = st.opt \/ optimized]

\* second loop of Intersect.Optimize: remove AllNodes, merge Quads, collect
\* Fixed, collect Save, merge Intersects.  st.i is the index of the member
\* looked at; hasQuads tells quads # nil.
IntersectSecondPass(st) ==
    IF st.i > st.sl.n THEN st
    ELSE
    LET c == st.sl.a[st.i]
    IN  CASE c.k = "AllNodes" ->
               IntersectSecondPass(IntersectRemove(st, TRUE))
          [] c.k = "Quads" ->
               LET st1 == IntersectRemove(st, FALSE)
               IN  IntersectSecondPass(
                     IF ~st.hasQuads
                     THEN [st1 EXCEPT !.hasQuads = TRUE, !.quads = c.q, !.onlyAll = FALSE]
                     ELSE [st1 EXCEPT !.opt = TRUE, !.quads = st.quads \o c.q,
                                      !.onlyAll = FALSE])
          [] c.k = "Fixed" ->
               LET st1 == IntersectRemove(st, TRUE)
               IN  IntersectSecondPass(
                     [st1 EXCEPT !.fixed = Append(st.fixed, c), !.onlyAll = FALSE])
          [] c.k = "Intersect" ->
               LET st1 == IntersectRemove(st, TRUE)
               IN  IntersectSecondPass(
                     [st1 EXCEPT !.sl = AppendTo(st1.sl, c.m), !.onlyAll = FALSE])
          [] c.k = "Save" ->
               IntersectSecondPass(
                 [st EXCEPT !.sl = SetAt(ReallocUnlessOpt(st.sl, st.opt), st.i, c.from),
                            !.opt = TRUE, !.tags = st.tags \o c.tags, !.onlyAll = FALSE])
          [] OTHER ->
               IntersectSecondPass([st EXCEPT !.i = st.i + 1, !.onlyAll = FALSE])

\* shape.One: the single ref of a Fixed of length one
IsOne(s) == s.k = "Fixed" /\ Len(s.v) = 1

\* realloc of Quads.Optimize: copies the slice once and sets opt
QuadsRealloc(st) ==
    IF ~st.opt THEN [st EXCEPT !.opt = TRUE, !.sl = CopyOf(st.sl)] ELSE st

\* loop of Quads.Optimize; st = [sl, opt, sw, i, ret]
QuadsOptimizeLoop(r, st) ==
    IF st.i > st.sl.n THEN st
    ELSE
    LET f == st.sl.a[st.i]
    IN  IF f.values = Nil THEN [st EXCEPT !.ret = "null"]
        ELSE
        LET v   == Optimize(r, f.values)
            st0 == [st EXCEPT !.sl.a[st.i].values = v.arg,
                              !.sl.caller[st.i].values = v.arg]
        IN  IF v.sout = Panic THEN [st0 EXCEPT !.ret = "panic"]
            ELSE IF v.sout = Nil THEN [st0 EXCEPT !.ret = "null"]
            ELSE
            LET st1 == IF v.opt
                       THEN LET q == QuadsRealloc(st0)
                            IN  [q EXCEPT !.sl = SetAt(q.sl, st.i,
                                                       QuadFilter(f.dir, v.sout))]
                       ELSE st0
                cur == st1.sl.a[st.i]
            IN  IF cur.values.k = "Fixed"
                THEN LET q  == QuadsRealloc(st1)
                         sw == q.sl.a[q.sw + 1]
                     IN  QuadsOptimizeLoop(r,
                           [q EXCEPT !.sl = SetAt(SetAt(q.sl, q.sw + 1, cur), st.i, sw),
                                     !.sw = q.sw + 1, !.i = st.i + 1])
                ELSE QuadsOptimizeLoop(r, [st1 EXCEPT !.i = st.i + 1])

QuadsOptimize(r, s) ==
    LET st  == QuadsOptimizeLoop(r, [sl |-> SliceOf(s.q), opt |-> FALSE, sw |-> 0,
                                     i |-> 1, ret |-> "none"])
        arg == Quads(st.sl.caller)
    IN  IF st.ret = "panic" THEN Panicked(arg)
        ELSE IF st.ret = "null" THEN Ret(Nil, TRUE, arg)
        ELSE IF r # NilOptimizer
        THEN LET o == OptimizeShape(r, Quads(Elems(st.sl)))
             IN  Ret(o.sout, st.opt \/ o.opt, arg)
        ELSE Ret(Quads(Elems(st.sl)), st.opt, arg)

\* the order in which the entries of a map over directions are visited
DirOrder == <<"s", "p", "o", "l">>

\* QuadsAction.simplify
Simplify(s) ==
    LET RECURSIVE Filt(_)
        Filt(i) == IF i > Len(DirOrder) THEN <<>>
                   ELSE IF DirOrder[i] \in DOMAIN s.filter
                        THEN <<QuadFilter(DirOrder[i], Fixed(<<s.filter[DirOrder[i]]>>))>>
                             \o Filt(i + 1)
                        ELSE Filt(i + 1)
        RECURSIVE Sav(_)
        Sav(i) == IF i > Len(DirOrder) THEN <<>>
                  ELSE IF DirOrder[i] \in DOMAIN s.save
                       THEN <<QuadFilter(DirOrder[i], Save(s.save[DirOrder[i]], AllNodes))>>
                            \o Sav(i + 1)
                       ELSE Sav(i + 1)
    IN  NodesFrom(s.result, Quads(Filt(1) \o Sav(1)))

\* the quads of the indexed store
StoreQuads ==
    {[s |-> 1, p |-> 1, o |-> 2, l |-> 0],
     [s |-> 2, p |-> 1, o |-> 2, l |-> 0],
     [s |-> 2, p |-> 1, o |-> 1, l |-> 0]}
\* the quads that match the constraint c (direction -> ref)
MatchingQuads(c) == {q \in StoreQuads : \A d \in DOMAIN c : q[d] = c[d]}
\* QuadIndexer.SizeOfIndex: the index is exact
SizeOfIndex(c) == [n |-> Cardinality(MatchingQuads(c)), exact |-> TRUE]
\* QuadIndexer.LookupQuadIndex: the quad, when exactly one matches
LookupQuadIndex(c) ==
    IF Cardinality(MatchingQuads(c)) = 1
    THEN [q |-> CHOOSE q \in MatchingQuads(c) : TRUE, ok |-> TRUE]
    ELSE [q |-> Nil, ok |-> FALSE]
\* r.(shape.QuadIndexer): a nil interface value asserts to nothing
IsQuadIndexer(r) == r = IndexOptimizer
MaterializeThreshold == 100

\* ft.Tags[t] = q.Get(d) for every tag t saved for direction d
QuadTags(save, q) ==
    LET tagsOf(d) == {save[d][i] : i \in 1..Len(save[d])}
        all == UNION {tagsOf(d) : d \in DOMAIN save}
    IN  [t \in all |-> q[CHOOSE d \in DOMAIN save : t \in tagsOf(d)]]

\* QuadsAction.Optimize past the type assertion: the rewrite by index size
QuadsActionIndexed(s) ==
    LET sz == SizeOfIndex(s.filter)
        s1 == [s EXCEPT !.size = sz.n]
        l  == LookupQuadIndex(s.filter)
    IN  IF s.size > 0 THEN Ret(s, FALSE, s)
        ELSE IF ~sz.exact THEN Ret(s, FALSE, s)
        ELSE IF sz.n = 0 THEN Ret(Nil, TRUE, s)
        ELSE IF sz.n = 1 /\ l.ok
        THEN IF DOMAIN s.save = {}
             THEN Ret(Fixed(<<l.q[s.result]>>), TRUE, s)
             ELSE Ret(FixedTags(QuadTags(s.save, l.q), Fixed(<<l.q[s.result]>>)), TRUE, s)
        ELSE IF sz.n < MaterializeThreshold THEN Ret(Materialize(sz.n, s1), TRUE, s)
        ELSE Ret(s1, TRUE, s)

\* QuadsAction.Optimize: a non-nil optimizer is only asked to rewrite the
\* shape and its simplified form; the type assertion r.(QuadIndexer) is
\* reached with a nil r only, where it fails
QuadsActionOptimize(r, s) ==
    IF r # NilOptimizer
    THEN LET o1 == OptimizeShape(r, s)
             o2 == OptimizeShape(r, Simplify(s))
         IN  IF o1.opt THEN Ret(o1.sout, TRUE, s)
             ELSE IF o2.opt THEN Ret(o2.sout, TRUE, s)
             ELSE Ret(s, FALSE, s)
    ELSE IF ~IsQuadIndexer(r) THEN Ret(s, FALSE, s)
    ELSE QuadsActionIndexed(s)

\* the scan of NodesFrom.Optimize that recognises single-ref Fixed filters
\* and Save of AllNodes; st = [filt, save, n, dup]
RECURSIVE NodesFromCollect(_, _, _)
NodesFromCollect(q, i, st) ==
    IF i > Len(q) THEN st
    ELSE
    LET f == q[i]
    IN  IF IsOne(f.values)
        THEN IF f.dir \in DOMAIN st.filt THEN [st EXCEPT !.dup = TRUE]
             ELSE NodesFromCollect(q, i + 1,
                    [st EXCEPT !.filt = MapSet(st.filt, f.dir, f.values.v[1]),
                               !.n = st.n + 1])
        ELSE IF f.values.k = "Save" /\ f.values.from.k = "AllNodes"
        THEN NodesFromCollect(q, i + 1,
               [st EXCEPT !.save = MapSet(st.save, f.dir,
                                     (IF f.dir \in DOMAIN st.save THEN st.save[f.dir]
                                      ELSE <<>>) \o f.values.tags),
                          !.n = st.n + 1])
        ELSE NodesFromCollect(q, i + 1, st)

NodesFromOptimize(r, s) ==
    IF IsNull(s.quads) THEN Ret(Nil, TRUE, s)
    ELSE
    LET c   == Optimize(r, s.quads)
        arg == [s EXCEPT !.quads = c.arg]
        s1  == [s EXCEPT !.quads = c.sout]
    IN  IF c.sout = Panic THEN Panicked(arg)
        ELSE IF r # NilOptimizer
        THEN LET o == OptimizeShape(r, s1) IN Ret(o.sout, c.opt \/ o.opt, arg)
        ELSE IF c.sout.k # "Quads" THEN Ret(s1, c.opt, arg)
        ELSE
        LET q == c.sout.q
        IN  IF Len(q) = 1 /\ q[1].dir = s.dir THEN Ret(q[1].values, TRUE, arg)
            ELSE
            LET vals == [i \in 1..Len(q) |-> q[i].values]
                ft   == ClearFixedTags(vals)
            IN  IF ft.found
                THEN LET nq == [i \in 1..Len(q) |-> QuadFilter(q[i].dir, ft.arr[i])]
                         ns == NodesFromOptimize(r, NodesFrom(s.dir, Quads(nq)))
                     IN  IF ns.sout = Panic THEN Panicked(arg)
                         ELSE Ret(FixedTags(ft.tags, ns.sout), TRUE, arg)
                ELSE
                LET st == NodesFromCollect(q, 1, [filt |-> EmptyMap, save |-> EmptyMap,
                                                  n |-> 0, dup |-> FALSE])
                IN  IF st.dup THEN Ret(s1, c.opt, arg)
                    ELSE IF st.n = Len(q)
                    THEN LET ns == QuadsActionOptimize(r,
                                     QuadsAction(0, s.dir, st.save, st.filt))
                         IN  Ret(ns.sout, TRUE, arg)
                    ELSE Ret(s1, c.opt, arg)

\* IntersectShapes
IntersectShapes(s1, s2) == Intersect(<<s1, s2>>)

\* QuadsAction.Clone: the copy, and whether its Filter map still is the map
\* of the receiver
QuadsActionClone(s) == [s |-> s, filterShared |-> FALSE]

\* the return statements that close Intersect.Optimize, on the members m
IntersectEnd(m, opt, argm) ==
    IF Len(m) = 0 THEN Ret(Nil, TRUE, argm)
    ELSE IF Len(m) = 1 THEN Ret(m[1], TRUE, argm)
    ELSE Ret(Intersect(m), opt, argm)

\* a single Fixed with one ref against a single QuadsAction sf
IntersectFixedQuadsAction(r, sf, fv, argm) ==
    IF sf.result \in DOMAIN sf.filter
    THEN IF sf.filter[sf.result] # fv
         THEN Ret(Nil, TRUE, argm)
         ELSE Ret(sf, TRUE, argm)
    ELSE
    LET cl  == QuadsActionClone(sf)
        sf2 == [cl.s EXCEPT !.filter = MapSet(sf.filter, sf.result, fv), !.size = 0]
        ns  == QuadsActionOptimize(r, sf2)
        am  == IF cl.filterShared /\ DOMAIN sf.filter # {}
               THEN [j \in 1..Len(argm) |->
                       IF argm[j] = sf THEN [sf EXCEPT !.filter = sf2.filter]
                       ELSE argm[j]]
               ELSE argm
    IN  Ret(ns.sout, TRUE, am)

\* a single Fixed against a single NodesFrom sf over Quads
IntersectFixedNodesFrom(sf, fix, argm) ==
    LET sq  == sf.quads.q
        hit == {j \in 1..Len(sq) : sq[j].dir = sf.dir}
    IN  IF hit = {}
        THEN Ret([sf EXCEPT !.quads = Quads(<<QuadFilter(sf.dir, fix)>> \o sq)],
                 TRUE, argm)
        ELSE
        LET qi == CHOOSE j \in hit : \A j2 \in hit : j <= j2
        IN  Ret([sf EXCEPT !.quads = Quads(
                   [sq EXCEPT ![qi].values = IntersectShapes(fix, sq[qi].values)])],
                TRUE, argm)

\* the part of Intersect.Optimize that puts the Fixed members back: s are the
\* members left, fixed the Fixed found by the second loop
IntersectFixed(r, s, fixed, opt, argm) ==
    IF Len(fixed) = 1
    THEN IF Len(s) = 1 /\ s[1].k = "QuadsAction" /\ Len(fixed[1].v) = 1
         THEN IntersectFixedQuadsAction(r, s[1], fixed[1].v[1], argm)
         ELSE IF Len(s) = 1 /\ s[1].k = "NodesFrom" /\ s[1].quads.k = "Quads"
         THEN IntersectFixedNodesFrom(s[1], fixed[1], argm)
         ELSE IntersectEnd(<<fixed[1]>> \o s, opt, argm)
    ELSE IF Len(fixed) > 1 THEN IntersectEnd(fixed \o s, opt, argm)
    ELSE IntersectEnd(s, opt, argm)

\* the part of Intersect.Optimize after the merged Quads were optimized to nq
IntersectQuads(r, st, nq, argm) ==
    IF st.hasQuads /\ nq.sout = Panic THEN Panicked(argm)
    ELSE IF st.hasQuads /\ IsNull(nq.sout) THEN Ret(Nil, TRUE, argm)
    ELSE IntersectFixed(r,
           Elems(IF st.hasQuads THEN AppendTo(st.sl, <<nq.sout>>) ELSE st.sl),
           st.fixed, st.opt \/ nq.opt, argm)

\* the part of Intersect.Optimize after the second loop, up to its return
\* statements; argm is the caller's array.  Gives Ret with arg the array.
IntersectTail(r, st, argm) ==
    IntersectQuads(r, st,
                   IF st.hasQuads THEN QuadsOptimize(r, Quads(st.quads))
                   ELSE Ret(Nil, FALSE, Nil),
                   argm)

\* the deferred function of Intersect.Optimize: moves Save outside of the
\* Intersect returned by the body
IntersectDeferred(r, tags, body) ==
    IF Len(tags) # 0 /\ body.sout # Panic /\ ~IsNull(body.sout)
    THEN LET sv == SaveOptimize(r, Save(tags, body.sout))
         IN  Ret(sv.sout, body.opt \/ sv.opt, Intersect(body.arg))
    ELSE Ret(body.sout, body.opt, Intersect(body.arg))

\* Intersect.Optimize once the second loop has run
IntersectAfterSecondPass(r, st) ==
    IF st.onlyAll THEN Ret(AllNodes, TRUE, Intersect(st.sl.caller))
    ELSE IntersectDeferred(r, st.tags, IntersectTail(r, st, st.sl.caller))

\* Intersect.Optimize once the fixed tags of the members were looked for
IntersectAfterFixedTags(r, p1, ft) ==
    IF ft.found
    THEN LET ns == Optimize(r, FixedTags(ft.tags, Intersect(ft.arr)))
         IN  Ret(ns.sout, TRUE, Intersect(p1.sl.caller))
    ELSE IntersectAfterSecondPass(r,
           IntersectSecondPass(
             [sl |-> p1.sl, opt |-> p1.opt, i |-> 1, onlyAll |-> TRUE,
              fixed |-> <<>>, tags |-> <<>>, quads |-> <<>>, hasQuads |-> FALSE]))

\* Intersect.Optimize once the first loop has run
IntersectAfterSubs(r, p1) ==
    IF p1.ret = "panic" THEN Panicked(Intersect(p1.sl.caller))
    ELSE IF p1.ret = "null" THEN Ret(Nil, TRUE, Intersect(p1.sl.caller))
    ELSE IF r # NilOptimizer
    THEN LET o == OptimizeShape(r, Intersect(Elems(p1.sl)))
         IN  Ret(o.sout, p1.opt \/ o.opt, Intersect(p1.sl.caller))
    ELSE IntersectAfterFixedTags(r, p1, ClearFixedTags(Elems(p1.sl)))

IntersectOptimize(r, s) ==
    IF Len(s.m) = 0 THEN Ret(Nil, TRUE, s)
    ELSE IntersectAfterSubs(r, IntersectOptimizeSubs(r, SliceOf(s.m), FALSE, 1))

\* remove(i) of IntersectOptional.Optimize on the Optional slice; the slice
\* is shared with the caller until alloc is set
OptionalRemove(sl, i) ==
    IF i = sl.n
    THEN \* s.Optional[:i:i] or s.Optional[:i]: the last member is cut off
         IF sl.shared
         THEN [sl EXCEPT !.a = SubSeq(sl.a, 1, i - 1), !.n = i - 1]
         ELSE [sl EXCEPT !.n = i - 1]
    ELSE IF sl.shared
    THEN [sl EXCEPT !.a = SubSeq(sl.a, 1, i - 1) \o SubSeq(sl.a, i + 1, sl.n),
                    !.n = sl.n - 1, !.shared = FALSE]
    ELSE RemoveAt(sl, i)

\* realloc of IntersectOptional.Optimize
OptionalRealloc(sl) == IF sl.shared THEN CopyOf(sl) ELSE sl

\* loop of IntersectOptional.Optimize over the optional members: i is the
\* index looked at, j the index the member had in the caller's array
IntersectOptionalLoop(r, st, i, j) ==
    IF i > st.sl.n THEN st
    ELSE
    LET sub == st.sl.a[i]
    IN  IF IsNull(sub)
        THEN IntersectOptionalLoop(r, [st EXCEPT !.sl = OptionalRemove(st.sl, i),
                                                 !.opt = TRUE], i, j + 1)
        ELSE
        LET ns  == Optimize(r, sub)
            st0 == [st EXCEPT !.sl.a[i] = ns.arg, !.sl.caller[j] = ns.arg]
        IN  IF ns.sout = Panic THEN [st0 EXCEPT !.panic = TRUE]
            ELSE IF ~ns.opt THEN IntersectOptionalLoop(r, st0, i + 1, j + 1)
            ELSE IF IsNull(ns.sout)
            THEN IntersectOptionalLoop(r, [st0 EXCEPT !.sl = OptionalRemove(st0.sl, i),
                                                      !.opt = TRUE], i, j + 1)
            ELSE IntersectOptionalLoop(r,
                   [st0 EXCEPT !.sl = SetAt(OptionalRealloc(st0.sl), i, ns.sout),
                               !.opt = TRUE], i + 1, j + 1)

\* an end that keeps the IntersectOptional when no optional member is left
IntersectOptionalEndKeep(s, optional, opt, ns, arg) ==
    IF ns.sout = Panic THEN Panicked(arg)
    ELSE Ret(IntersectOptional(IF ns.sout.k = "Intersect" THEN ns.sout.m
                               ELSE <<ns.sout>>,
                               optional),
             opt \/ ns.opt, arg)

\* the end of IntersectOptional.Optimize: ns is the required part optimized
IntersectOptionalEnd(s, optional, opt, ns, arg) ==
    IF ns.sout = Panic THEN Panicked(arg)
    ELSE IF Len(optional) = 0 THEN Ret(ns.sout, TRUE, arg)
    ELSE Ret(IntersectOptional(IF ns.sout.k = "Intersect" THEN ns.sout.m
                               ELSE <<ns.sout>>,
                               optional),
             opt \/ ns.opt, arg)

\* IntersectOptional.Optimize once the loop over the optional members has run
IntersectOptionalRequired(r, s, st) ==
    IF st.panic THEN Panicked([s EXCEPT !.o = st.sl.caller])
    ELSE IF Len(s.i) = 1
    THEN \* a single member is optimized itself, not as Intersect{member}
         LET ns == Optimize(r, s.i[1])
         IN  IntersectOptionalEnd(s, Elems(st.sl), st.opt, ns,
                                  [s EXCEPT !.o = st.sl.caller, !.i = <<ns.arg>>])
    ELSE LET ns == Optimize(r, Intersect(s.i))
         IN  IntersectOptionalEnd(s, Elems(st.sl), st.opt, ns,
                                  [s EXCEPT !.o = st.sl.caller, !.i = ns.arg.m])

IntersectOptionalOptimize(r, s) ==
    IntersectOptionalRequired(r, s,
      IntersectOptionalLoop(r, [sl |-> SliceOf(s.o), opt |-> FALSE, panic |-> FALSE],
                            1, 1))

NullVOptimize(r, s) ==
    IF r # NilOptimizer
    THEN LET o == OptimizeExpr(r, s) IN Ret(o.sout, o.opt, s)
    ELSE Ret(Nil, TRUE, s)

ValuesOptimize(r, s) ==
    IF Len(s.v) = 0 THEN Ret(Nil, TRUE, s)
    ELSE IF r # NilOptimizer
    THEN LET o == OptimizeExpr(r, s) IN Ret(o.sout, o.opt, s)
    ELSE Ret(s, FALSE, s)

\* the receiver is a copy, so assigning s.From changes nothing of the caller
FilterOptimize(r, s) ==
    IF IsNullExpr(s.from) THEN Ret(Nil, TRUE, s)
    ELSE
    LET f   == Optimize(r, s.from)
        arg == [s EXCEPT !.from = f.arg]
        s1  == [s EXCEPT !.from = f.sout]
    IN  IF f.sout = Panic THEN Panicked(arg)
        ELSE IF r # NilOptimizer
        THEN LET o == OptimizeValShape(r, s1) IN Ret(o.sout, f.opt \/ o.opt, arg)
        ELSE IF IsNullExpr(s1.from) THEN Ret(Nil, TRUE, arg)
        ELSE IF Len(s1.filters) = 0 THEN Ret(s1.from, TRUE, arg)
        ELSE Ret(s1, f.opt, arg)

\* an AddFilters that wraps a Filter in another Filter
AddFiltersWrap(nodes, filters) ==
    IF Len(filters) = 0 THEN nodes
    ELSE IF nodes.k = "nil" THEN Panic
    ELSE Filter(nodes, filters)

\* AddFilters(nodes, filters...): the builder of a Filter
AddFilters(nodes, filters) ==
    IF Len(filters) = 0 THEN nodes
    ELSE IF nodes.k = "Filter"
    THEN Filter(nodes.from, nodes.filters \o filters)
    ELSE IF nodes.k = "nil" THEN Panic
    ELSE Filter(nodes, filters)

\* s.Optimize(r) through the Shape interface; a call on a nil interface panics
Optimize(r, s) ==
    CASE s.k = "nil" -> Panicked(s)
      [] s.k = "Null" -> NullOptimize(r, s)
      [] s.k = "AllNodes" -> AllNodesOptimize(r, s)
      [] s.k = "Fixed" -> FixedOptimize(r, s)
      [] s.k = "FixedTags" -> FixedTagsOptimize(r, s)
      [] s.k = "Union" -> UnionOptimize(r, s)
      [] s.k = "Page" -> PageOptimize(r, s)
      [] s.k = "Unique" -> UniqueOptimize(r, s)
      [] s.k = "Save" -> SaveOptimize(r, s)
      [] s.k = "Intersect" -> IntersectOptimize(r, s)
      [] s.k = "IntersectOptional" -> IntersectOptionalOptimize(r, s)
      [] s.k = "Quads" -> QuadsOptimize(r, s)
      [] s.k = "NodesFrom" -> NodesFromOptimize(r, s)
      [] s.k = "QuadsAction" -> QuadsActionOptimize(r, s)
      [] s.k = "Materialize" -> MaterializeOptimize(r, s)
      [] s.k \in {"NosqlShape", "NosqlQuads"} -> Ret(s, FALSE, s)
      [] s.k = "NullV" -> NullVOptimize(r, s)
      [] s.k = "Values" -> ValuesOptimize(r, s)
      [] s.k = "Filter" -> FilterOptimize(r, s)

\* no error
NoErr == [k |-> "nil"]
\* errors.New(msg)
ErrorsNew(msg) == [k |-> "error", msg |-> msg]
ErrNoQuadStore == ErrorsNew("query should be bound to quad store")

\* ---------------------------------------------------------------- iterators
\* An iterator is a record tagged by k holding its fields and sub-iterators.
\* IterNext (the method Next) and Contains give the iterator after the call and the flag returned.
NewNull == [k |-> "Null"]
NewFixed(values) == [k |-> "Fixed", values |-> values, lastIndex |-> 0, result |-> 0]
NewAnd(sub) == [k |-> "And", sub |-> sub, opt |-> <<>>, optOk |-> <<>>, result |-> 0]
AddOptionalIterator(and, it) ==
    [and EXCEPT !.opt = Append(and.opt, it), !.optOk = Append(and.optOk, FALSE)]
NewOr(sub) == [k |-> "Or", sub |-> sub, cur |-> 0]
NewUnique(subIt) ==
    [k |-> "Unique", subIt |-> subIt, result |-> 0, seen |-> {}, err |-> NoErr]
NewSave(on, tags) == [k |-> "Save", it |-> on, tags |-> tags, fixedTags |-> EmptyMap]
AddFixedTag(sv, tag, value) == [sv EXCEPT !.fixedTags = MapSet(sv.fixedTags, tag, value)]
NewSkip(primaryIt, skip) ==
    [k |-> "Skip", skip |-> skip, skipped |-> 0, primaryIt |-> primaryIt]
NewLimit(primaryIt, limit) ==
    [k |-> "Limit", limit |-> limit, count |-> 0, primaryIt |-> primaryIt]
\* the nodes of the store, each once
StoreNodes == [i \in 1..MaxRef |-> i]
\* quad.Int(n), a value that is no node ref
QuadInt(n) == [int |-> n]
\* iterator.NewError(err): an iterator with no row that reports err
NewError(err) == [k |-> "Error", err |-> err]
NewCount(it) == [k |-> "Count", it |-> it, done |-> FALSE, result |-> 0]
DefaultMaxRecursiveSteps == 50
\* NewRecursive(it, morphism, maxDepth): the morphism is given by step, the
\* successors of each ref in the order the morphism yields them, and mtag,
\* whether the morphism tags its result as "m"
NewRecursive(it, step, mtag, maxDepth) ==
    [k |-> "Recursive", subIt |-> it, step |-> step, mtag |-> mtag,
     result |-> [depth |-> 0, val |-> 0],
     seen |-> EmptyMap, nextIt |-> NewNull, depth |-> 0,
     maxDepth |-> IF maxDepth = 0 THEN DefaultMaxRecursiveSteps ELSE maxDepth,
     pathMap |-> EmptyMap, pathIndex |-> 0, containsValue |-> 0,
     depthTags |-> <<>>, depthCache |-> <<>>, baseIt |-> NewFixed(<<>>),
     made |-> 0, nextId |-> 0, closed |-> <<>>, subClosed |-> 0]
AddDepthTag(it, s) == [it EXCEPT !.depthTags = Append(it.depthTags, s)]
\* the iterator morphism(Tag(baseIt, "__base_recursive")) builds: for each
\* ref of baseIt in turn, its successors, each tagged with the ref it came from
RECURSIVE MorphRows(_, _, _)
MorphRows(step, mtag, base) ==
    IF Len(base) = 0 THEN <<>>
    ELSE LET b == Head(base)
             row(i) == [ref |-> step[b][i],
                        tags |-> IF mtag
                                 THEN [x \in {"__base_recursive", "m"} |->
                                          IF x = "m" THEN step[b][i] ELSE b]
                                 ELSE [x \in {"__base_recursive"} |-> b]]
         IN  [i \in 1..Len(step[b]) |-> row(i)] \o MorphRows(step, mtag, Tail(base))
Morphism(it, baseIt) ==
    [k |-> "Morph", rows |-> MorphRows(it.step, it.mtag, baseIt.values), i |-> 0]

RECURSIVE IterNext(_)
RECURSIVE Err(_)
RECURSIVE Contains(_, _)
RECURSIVE Result(_)
RECURSIVE TagResults(_, _)

RECURSIVE NextPath(_)
RECURSIVE Reset(_)
RECURSIVE Size(_)

IterRet(it, ok) == [it |-> it, ok |-> ok]

FixedNext(it) ==
    IF it.lastIndex = Len(it.values) THEN IterRet(it, FALSE)
    ELSE IterRet([it EXCEPT !.lastIndex = it.lastIndex + 1,
                            !.result = it.values[it.lastIndex + 1]], TRUE)

FixedContains(it, v) ==
    IF \E i \in 1..Len(it.values) : it.values[i] = v
    THEN IterRet([it EXCEPT !.result = v], TRUE)
    ELSE IterRet(it, FALSE)

\* Contains(v) on the iterators subs[i..], stopping at the first that fails
RECURSIVE AllContain(_, _, _)
AllContain(subs, i, v) ==
    IF i > Len(subs) THEN [subs |-> subs, ok |-> TRUE]
    ELSE LET c == Contains(subs[i], v)
         IN  IF c.ok THEN AllContain([subs EXCEPT ![i] = c.it], i + 1, v)
             ELSE [subs |-> [subs EXCEPT ![i] = c.it], ok |-> FALSE]

\* the optional iterators are asked too, but do not decide
AndCheckOptional(it, v) ==
    LET cs == [i \in 1..Len(it.opt) |-> Contains(it.opt[i], v)]
    IN  [it EXCEPT !.opt = [i \in 1..Len(it.opt) |-> cs[i].it],
                   !.optOk = [i \in 1..Len(it.opt) |-> cs[i].ok],
                   !.result = v]

RECURSIVE AndNext(_)
AndNext(it) ==
    LET p == IterNext(it.sub[1])
    IN  IF ~p.ok THEN IterRet([it EXCEPT !.sub[1] = p.it], FALSE)
        ELSE
        LET cur == Result(p.it)
            c   == AllContain([it.sub EXCEPT ![1] = p.it], 2, cur)
            it1 == [it EXCEPT !.sub = c.subs]
        IN  IF c.ok THEN IterRet(AndCheckOptional(it1, cur), TRUE)
            ELSE AndNext(it1)

AndContains(it, v) ==
    LET c   == AllContain(it.sub, 1, v)
        it1 == [it EXCEPT !.sub = c.subs]
    IN  IF c.ok THEN IterRet(AndCheckOptional(it1, v), TRUE)
        ELSE IterRet(it1, FALSE)

RECURSIVE OrNext(_)
OrNext(it) ==
    LET cur == IF it.cur = 0 THEN 1 ELSE it.cur
    IN  IF cur > Len(it.sub) THEN IterRet(it, FALSE)
        ELSE LET n == IterNext(it.sub[cur])
             IN  IF n.ok THEN IterRet([it EXCEPT !.sub[cur] = n.it, !.cur = cur], TRUE)
                 ELSE OrNext([it EXCEPT !.sub[cur] = n.it, !.cur = cur + 1])

RECURSIVE OrContainsFrom(_, _, _)
OrContainsFrom(it, i, v) ==
    IF i > Len(it.sub) THEN IterRet(it, FALSE)
    ELSE LET c == Contains(it.sub[i], v)
         IN  IF c.ok THEN IterRet([it EXCEPT !.sub[i] = c.it, !.cur = i], TRUE)
             ELSE OrContainsFrom([it EXCEPT !.sub[i] = c.it], i + 1, v)

\* Unique.Next: advance the sub-iterator to a value not seen before
RECURSIVE UniqueNext(_)
UniqueNext(it) ==
    LET n == IterNext(it.subIt)
    IN  IF ~n.ok THEN IterRet([it EXCEPT !.subIt = n.it, !.err = Err(n.it)], FALSE)
        ELSE LET curr == Result(n.it)
             IN  IF curr \notin it.seen
                 THEN IterRet([it EXCEPT !.subIt = n.it, !.result = curr,
                                         !.seen = it.seen \cup {curr}], TRUE)
                 ELSE UniqueNext([it EXCEPT !.subIt = n.it])

\* Skip.Next: skip the first values, then return the next one
RECURSIVE SkipNext(_)
SkipNext(it) ==
    LET n == IterNext(it.primaryIt)
    IN  IF it.skipped < it.skip
        THEN IF ~n.ok THEN IterRet([it EXCEPT !.primaryIt = n.it], FALSE)
             ELSE SkipNext([it EXCEPT !.primaryIt = n.it, !.skipped = it.skipped + 1])
        ELSE IterRet([it EXCEPT !.primaryIt = n.it], n.ok)

LimitNext(it) ==
    IF it.limit > 0 /\ it.count >= it.limit THEN IterRet(it, FALSE)
    ELSE LET n == IterNext(it.primaryIt)
         IN  IF n.ok THEN IterRet([it EXCEPT !.primaryIt = n.it, !.count = it.count + 1], TRUE)
             ELSE IterRet([it EXCEPT !.primaryIt = n.it], FALSE)

\* m[key] of a Go map of slices: no entry reads as the empty slice
MapSeq(m, key) == IF key \in DOMAIN m THEN m[key] ELSE <<>>
\* delete(m, key)
MapDel(m, key) == [x \in (DOMAIN m) \ {key} |-> m[x]]

\* Count.Next, the counting loop: size++ for every Next and every NextPath
RECURSIVE CountRows(_, _)
RECURSIVE CountPaths(_, _)
CountRow(n, size) ==
    IF ~n.ok THEN [it |-> n.it, size |-> size] ELSE CountPaths(n.it, size)
CountRows(it, size) == CountRow(IterNext(it), size)
CountPath(p, size) ==
    IF p.ok THEN CountPaths(p.it, size + 1) ELSE CountRows(p.it, size + 1)
CountPaths(it, size) == CountPath(NextPath(it), size)

CountDone(it, c) ==
    IterRet([it EXCEPT !.it = c.it, !.result = QuadInt(c.size), !.done = TRUE], TRUE)
CountSized(it, sz) ==
    IF sz.exact THEN CountDone(it, [it |-> it.it, size |-> sz.n])
    ELSE CountDone(it, CountRows(it.it, 0))
\* the same with it.done never set
CountNextAgain(it) ==
    LET n == CountSized(it, Size(it.it)) IN IterRet([n.it EXCEPT !.done = FALSE], TRUE)
CountNext(it) ==
    IF it.done THEN IterRet(it, FALSE) ELSE CountSized(it, Size(it.it))

CountContains(it, v) ==
    LET n == IF ~it.done THEN CountNext(it).it ELSE it
    IN  IterRet(n, v = n.result)

\* Recursive.getBaseValue: the ref of the base set val descends from; Panic
\* where the code panics
RECURSIVE BaseOf(_, _)
BaseOf(seen, at) ==
    IF at.depth = 1 THEN at.val
    ELSE IF at.depth = 0 THEN Panic
    ELSE BaseOf(seen, IF at.val \in DOMAIN seen THEN seen[at.val]
                      ELSE [val |-> 0, depth |-> 0])
getBaseValue(it, val) ==
    IF val \notin DOMAIN it.seen THEN Panic ELSE BaseOf(it.seen, it.seen[val])

\* Recursive.Next at depth 0: the base set is drained into depthCache, and the
\* tags of every path of each base ref are kept in pathMap
RECURSIVE RecursivePaths(_, _)
RecursivePath(it, key, p) ==
    IF ~p.ok THEN [it EXCEPT !.subIt = p.it]
    ELSE RecursivePaths(
           [it EXCEPT !.subIt = p.it,
                      !.pathMap = MapSet(@, key, Append(MapSeq(@, key),
                                                        TagResults(p.it, EmptyMap)))],
           key)
RecursivePaths(it, key) == RecursivePath(it, key, NextPath(it.subIt))
RecursiveKeep(it, sub, key) ==
    RecursivePaths(
      [it EXCEPT !.subIt = sub,
                 !.depthCache = Append(@, key),
                 !.pathMap = MapSet(@, key, Append(MapSeq(@, key),
                                                   TagResults(sub, EmptyMap)))],
      key)
RECURSIVE RecursiveFill(_)
RecursiveFillRow(it, n) ==
    IF ~n.ok THEN [it EXCEPT !.subIt = n.it]
    ELSE RecursiveFill(RecursiveKeep(it, n.it, Result(n.it)))
RecursiveFillTurn(it) == RecursiveFillRow(it, IterNext(it.subIt))
\* the loop runs on the one iterator the calls before it have changed in place:
\* x is its value, taken once
RecursiveFill(it) == CHOOSE r \in {RecursiveFillTurn(x) : x \in {it}} : TRUE

\* Recursive.Next on a new row, with the new ref not kept for the next depth
RecursiveYieldLost(it, val, results) ==
    LET it1 == [it EXCEPT !.seen = MapSet(@, val, [val |-> results["__base_recursive"],
                                                   depth |-> it.depth]),
                          !.result = [depth |-> it.depth, val |-> val]]
    IN  IterRet([it1 EXCEPT !.containsValue = getBaseValue(it1, val)], TRUE)
\* the row of nextIt is new: it is recorded as seen and returned
RecursiveYield(it, val, results) ==
    LET it1 == [it EXCEPT !.seen = MapSet(@, val, [val |-> results["__base_recursive"],
                                                   depth |-> it.depth]),
                          !.result = [depth |-> it.depth, val |-> val],
                          !.depthCache = Append(@, val)]
    IN  IterRet([it1 EXCEPT !.containsValue = getBaseValue(it1, val)], TRUE)
\* the same with a ref seen at the current depth taken as new
RECURSIVE RecursiveLoopAll(_)
RecursiveStepAll(it, n) ==
    IF ~n.ok
    THEN IF it.maxDepth > 0 /\ it.depth >= it.maxDepth THEN IterRet(it, FALSE)
         ELSE IF Len(it.depthCache) = 0 THEN IterRet(it, FALSE)
         ELSE RecursiveLoopAll(
                [it EXCEPT !.depth = @ + 1,
                           !.baseIt = NewFixed(it.depthCache),
                           !.depthCache = <<>>,
                           !.closed = Append(@, it.nextId),
                           !.made = @ + 1,
                           !.nextId = it.made + 1,
                           !.nextIt = Morphism(it, NewFixed(it.depthCache))])
    ELSE IF Result(n.it) \notin DOMAIN it.seen
            \/ it.seen[Result(n.it)].depth = it.depth
    THEN RecursiveYield([it EXCEPT !.nextIt = n.it], Result(n.it),
                        TagResults(n.it, EmptyMap))
    ELSE RecursiveLoopAll([it EXCEPT !.nextIt = n.it])
RecursiveTurnAll(it) == RecursiveStepAll(it, IterNext(it.nextIt))
RecursiveLoopAll(it) == CHOOSE r \in {RecursiveTurnAll(x) : x \in {it}} : TRUE
\* the same with the exhausted search reporting a row
RECURSIVE RecursiveLoopOn(_)
RecursiveStepOn(it, n) ==
    IF ~n.ok
    THEN IF it.maxDepth > 0 /\ it.depth >= it.maxDepth THEN IterRet(it, TRUE)
         ELSE IF Len(it.depthCache) = 0 THEN IterRet(it, TRUE)
         ELSE RecursiveLoopOn(
                [it EXCEPT !.depth = @ + 1,
                           !.baseIt = NewFixed(it.depthCache),
                           !.depthCache = <<>>,
                           !.closed = Append(@, it.nextId),
                           !.made = @ + 1,
                           !.nextId = it.made + 1,
                           !.nextIt = Morphism(it, NewFixed(it.depthCache))])
    ELSE IF Result(n.it) \notin DOMAIN it.seen
    THEN RecursiveYield([it EXCEPT !.nextIt = n.it], Result(n.it),
                        TagResults(n.it, EmptyMap))
    ELSE RecursiveLoopOn([it EXCEPT !.nextIt = n.it])
RecursiveTurnOn(it) == RecursiveStepOn(it, IterNext(it.nextIt))
RecursiveLoopOn(it) == CHOOSE r \in {RecursiveTurnOn(x) : x \in {it}} : TRUE
\* Recursive.Next, the loop: the next row of nextIt not seen before; when nextIt
\* is exhausted the refs found at this depth become the base of the next depth
RECURSIVE RecursiveLoop(_)
RecursiveStep(it, n) ==
    IF ~n.ok
    THEN IF it.maxDepth > 0 /\ it.depth >= it.maxDepth THEN IterRet(it, FALSE)
         ELSE IF Len(it.depthCache) = 0 THEN IterRet(it, FALSE)
         ELSE RecursiveLoop(
                [it EXCEPT !.depth = @ + 1,
                           !.baseIt = NewFixed(it.depthCache),
                           !.depthCache = <<>>,
                           !.closed = Append(@, it.nextId),
                           !.made = @ + 1,
                           !.nextId = it.made + 1,
                           !.nextIt = Morphism(it, NewFixed(it.depthCache))])
    ELSE IF Result(n.it) \notin DOMAIN it.seen
    THEN RecursiveYield([it EXCEPT !.nextIt = n.it], Result(n.it),
                        TagResults(n.it, EmptyMap))
    ELSE RecursiveLoop([it EXCEPT !.nextIt = n.it])
RecursiveTurn(it) == RecursiveStep(it, IterNext(it.nextIt))
RecursiveLoop(it) == CHOOSE r \in {RecursiveTurn(x) : x \in {it}} : TRUE

RecursiveNext(it) ==
    IF it.depth = 0 THEN RecursiveLoop(RecursiveFill([it EXCEPT !.pathIndex = 0]))
    ELSE RecursiveLoop([it EXCEPT !.pathIndex = 0])

\* Recursive.Contains, the loop over Next
RECURSIVE RecursiveSearch(_, _)
RecursiveFound(n, v) ==
    IF ~n.ok THEN n ELSE IF n.it.result.val = v THEN n ELSE RecursiveSearch(n.it, v)
RecursiveSearch(it, v) == RecursiveFound(RecursiveNext(it), v)

RecursiveContains(it, v) ==
    IF v \in DOMAIN it.seen
    THEN IterRet([it EXCEPT !.pathIndex = 0,
                            !.containsValue = getBaseValue(it, v),
                            !.result = [depth |-> it.seen[v].depth, val |-> v]], TRUE)
    ELSE RecursiveSearch([it EXCEPT !.pathIndex = 0], v)

RecursiveNextPath(it) ==
    IF it.pathIndex + 1 >= Len(MapSeq(it.pathMap, it.containsValue)) THEN IterRet(it, FALSE)
    ELSE IterRet([it EXCEPT !.pathIndex = @ + 1], TRUE)

\* Recursive.Reset; depthCache is not among the fields it clears
RecursiveReset(it) ==
    [it EXCEPT !.result = [depth |-> 0, val |-> 0],
               !.subIt = Reset(it.subIt),
               !.seen = EmptyMap,
               !.pathMap = EmptyMap,
               !.containsValue = 0,
               !.pathIndex = 0,
               !.nextIt = NewNull,
               !.nextId = 0,
               !.baseIt = NewFixed(<<>>),
               !.depth = 0]

\* Recursive.Close: subIt is closed, then nextIt unless the Close of subIt
\* returned an error; failing names the iterators whose Close returns an error
ErrClose == ErrorsNew("close")
RecursiveCloseNext(it, failing) ==
    [it |-> [it EXCEPT !.closed = Append(@, it.nextId),
                       !.seen = IF "nextIt" \in failing THEN @ ELSE EmptyMap],
     err |-> IF "nextIt" \in failing THEN ErrClose ELSE NoErr]
RecursiveClose(it, failing) ==
    IF "subIt" \in failing
    THEN [it |-> [it EXCEPT !.subClosed = @ + 1], err |-> ErrClose]
    ELSE RecursiveCloseNext([it EXCEPT !.subClosed = @ + 1], failing)

\* Err(): the error the iterator reports
Err(it) ==
    CASE it.k = "Null" -> NoErr
      [] it.k = "Error" -> it.err
      [] it.k = "Fixed" -> NoErr
      [] it.k = "Unique" -> it.err
      [] it.k = "Count" -> Err(it.it)
      [] it.k = "Save" -> Err(it.it)
      [] it.k = "Skip" -> Err(it.primaryIt)
      [] it.k = "Recursive" -> NoErr
      [] it.k = "Test" -> it.ErrVal
      [] it.k = "ValueFilter" -> it.err
      [] it.k = "Limit" -> Err(it.primaryIt)
      [] it.k \in {"And", "Or", "Morph"} -> NoErr

\* newTestVIterator(next, err): an iterator over no values whose Next returns
\* NextVal and whose Err returns ErrVal
NewTestVIterator(next, err) == [k |-> "Test", NextVal |-> next, ErrVal |-> err]

\* a ValueFilterFunc: it returns (false, err) on the values of fail and
\* (v \in pass, nil) on the others
ValueFilterFunc(pass, fail, err) ==
    [k |-> "func", pass |-> pass, fail |-> fail, err |-> err]

\* a quad.Value is a type and what it holds: an integer for Int, Float and Time,
\* a string for the others; a string is the sequence of its bytes
quadInt(n) == [t |-> "Int", n |-> n]
quadString(b) == [t |-> "String", b |-> b]
quadBNode(b) == [t |-> "BNode", b |-> b]
quadIRI(b) == [t |-> "IRI", b |-> b]
quadRaw(b) == [t |-> "Raw", b |-> b]

\* the bytes of a pattern: % and ?, and the parts of a compiled pattern, written
\* as numbers below zero: ^, $, .*, . and the \? that QuoteMeta makes of ?
Percent == 37
Question == 63
ReStart == 0 - 1
ReEnd == 0 - 2
ReAny == 0 - 3
ReOne == 0 - 4
ReQuotedQuestion == 0 - 5

Wildcard(pattern) == [k |-> "Wildcard", Pattern |-> pattern]
Regexp(re, refs) == [k |-> "Regexp", Re |-> re, Refs |-> refs]

\* strings.Trim(pattern, "%") == ""
OnlyPercent(pattern) == \A i \in 1..Len(pattern) : pattern[i] = Percent

\* Wildcard.Regexp: the pattern quoted, anchored where it does not begin or end
\* with %, one % taken off where it does, then % made .* and \? made .
QuoteMeta(pattern) ==
    [i \in 1..Len(pattern) |->
        IF pattern[i] = Question THEN ReQuotedQuestion ELSE pattern[i]]
AnchorFront(quoted) ==
    IF Len(quoted) = 0 \/ Head(quoted) # Percent THEN <<ReStart>> \o quoted
    ELSE Tail(quoted)
AnchorBack(front) ==
    IF Len(front) = 0 \/ front[Len(front)] # Percent THEN front \o <<ReEnd>>
    ELSE SubSeq(front, 1, Len(front) - 1)
ReplaceWildcards(back) ==
    [i \in 1..Len(back) |->
        IF back[i] = Percent THEN ReAny
        ELSE IF back[i] = ReQuotedQuestion THEN ReOne
        ELSE back[i]]
WildcardRegexp(f) == ReplaceWildcards(AnchorBack(AnchorFront(QuoteMeta(f.Pattern))))

\* re.MatchString(s): some part of s matches the compiled pattern
RECURSIVE MatchHere(_, _)
MatchHere(re, str) ==
    IF Len(re) = 0 THEN TRUE
    ELSE IF Head(re) = ReEnd THEN Len(str) = 0 /\ MatchHere(Tail(re), str)
    ELSE IF Head(re) = ReAny
    THEN \E n \in 0..Len(str) : MatchHere(Tail(re), SubSeq(str, n + 1, Len(str)))
    ELSE IF Len(str) = 0 THEN FALSE
    ELSE IF Head(re) = ReOne \/ Head(re) = Head(str) THEN MatchHere(Tail(re), Tail(str))
    ELSE FALSE
MatchString(re, str) ==
    IF Len(re) # 0 /\ Head(re) = ReStart THEN MatchHere(Tail(re), str)
    ELSE \E n \in 0..Len(str) : MatchHere(re, SubSeq(str, n + 1, Len(str)))

\* Regexp.FilterValue
RegexpFilterValue(f, v) ==
    [ok |-> IF v.t = "String" THEN MatchString(f.Re, v.b)
            ELSE IF f.Refs /\ v.t \in {"BNode", "IRI"} THEN MatchString(f.Re, v.b)
            ELSE FALSE,
     err |-> NoErr]

\* Wildcard.buildValueFilter: the filter itself for the empty pattern, no filter
\* for a pattern of % alone, the compiled pattern otherwise
WildcardBuild(f) ==
    IF Len(f.Pattern) = 0 THEN [f |-> f, err |-> NoErr]
    ELSE IF OnlyPercent(f.Pattern) THEN [f |-> Nil, err |-> NoErr]
    ELSE [f |-> Regexp(WildcardRegexp(f), TRUE), err |-> NoErr]
\* Wildcard.BuildValueFilter
WildcardBuilt(f, nf) == IF nf.err = NoErr THEN nf.f ELSE f
WildcardBuildValueFilter(f) == WildcardBuilt(f, WildcardBuild(f))

\* how a call ends that returns nothing: the stack of the goroutine overflows
\* after MaxStack nested calls, or a method is called on a nil interface
MaxStack == 3
StackOverflow == [k |-> "stack overflow"]
NilDereference == [k |-> "nil dereference"]
Crashed(o) == o \in {StackOverflow, NilDereference}

\* f.FilterValue(v) at a depth of the stack. Wildcard.FilterValue builds its
\* filter and calls FilterValue on it
RECURSIVE FilterValueAt(_, _, _)
WildcardFilterWith(nf, v, depth) ==
    IF nf.err # NoErr THEN [ok |-> FALSE, err |-> nf.err]
    ELSE IF nf.f = Nil THEN NilDereference
    ELSE FilterValueAt(nf.f, v, depth + 1)
WildcardFilterValue(f, v, depth) == WildcardFilterWith(WildcardBuild(f), v, depth)
FilterValueAt(f, v, depth) ==
    IF depth > MaxStack THEN StackOverflow
    ELSE CASE f.k = "Wildcard" -> WildcardFilterValue(f, v, depth)
           [] f.k = "Regexp" -> RegexpFilterValue(f, v)
FilterValue(f, v) == FilterValueAt(f, v, 0)

\* the call of a ValueFilterFunc
FilterCall(f, val) ==
    IF f.k # "func" THEN FilterValue(f, val)
    ELSE IF val \in f.fail THEN [ok |-> FALSE, err |-> f.err]
    ELSE [ok |-> val \in f.pass, err |-> NoErr]

\* NewValueFilter(sub, filter)
NewValueFilter(sub, filter) ==
    [k |-> "ValueFilter", sub |-> sub, filter |-> filter, result |-> 0, err |-> NoErr]

\* ValueFilter.doFilter: an error of the predicate is kept in err, and the
\* answer of the predicate is returned
doFilterKeep(it, r) ==
    IterRet(IF r.err # NoErr THEN [it EXCEPT !.err = r.err] ELSE it, r.ok)
doFilter(it, val) == doFilterKeep(it, FilterCall(it.filter, val))

\* ValueFilter.Next: the rows of sub in turn until one passes the predicate;
\* when sub has no more rows, err becomes the error of sub
RECURSIVE ValueFilterNext(_)
ValueFilterPassed(it, f, val) ==
    IF f.ok THEN IterRet([f.it EXCEPT !.result = val], TRUE)
    ELSE ValueFilterNext(f.it)
ValueFilterTurn(it, n) ==
    IF ~n.ok THEN IterRet([it EXCEPT !.sub = n.it, !.err = Err(n.it)], FALSE)
    ELSE ValueFilterPassed(it, doFilter([it EXCEPT !.sub = n.it], Result(n.it)),
                           Result(n.it))
ValueFilterNext(it) ==
    CHOOSE r \in {ValueFilterTurn(x, IterNext(x.sub)) : x \in {it}} : TRUE

\* ValueFilter.NextPath: the paths of sub in turn until one passes
RECURSIVE ValueFilterNextPath(_)
ValueFilterPathPassed(it, f) ==
    IF f.ok THEN IterRet([f.it EXCEPT !.result = Result(f.it.sub)], TRUE)
    ELSE ValueFilterNextPath(f.it)
ValueFilterPathTurn(it, n) ==
    IF ~n.ok THEN IterRet([it EXCEPT !.sub = n.it, !.err = Err(n.it)], FALSE)
    ELSE ValueFilterPathPassed(it, doFilter([it EXCEPT !.sub = n.it], Result(n.it)))
ValueFilterNextPath(it) ==
    CHOOSE r \in {ValueFilterPathTurn(x, NextPath(x.sub)) : x \in {it}} : TRUE

\* ValueFilter.Contains: the predicate first, then sub
ValueFilterSubContains(it, c) ==
    IterRet(IF c.ok THEN [it EXCEPT !.sub = c.it]
            ELSE [it EXCEPT !.sub = c.it, !.err = Err(c.it)], c.ok)
ValueFilterFiltered(f, val) ==
    IF ~f.ok THEN IterRet(f.it, FALSE)
    ELSE ValueFilterSubContains(f.it, Contains(f.it.sub, val))
ValueFilterContains(it, val) == ValueFilterFiltered(doFilter(it, val), val)

\* ValueFilter.Reset
ValueFilterReset(it) == [it EXCEPT !.sub = Reset(it.sub), !.err = NoErr, !.result = 0]

\* the iterator of the morphism: its rows in turn; when exhausted it stays on
\* its last row
MorphNext(it) ==
    IF it.i >= Len(it.rows) THEN IterRet(it, FALSE)
    ELSE IterRet([it EXCEPT !.i = @ + 1], TRUE)

\* Save.Next and Save.NextPath: the step of the saved iterator
SaveStep(it, n) == IterRet([it EXCEPT !.it = n.it], n.ok)

IterNext(it) ==
    CASE it.k = "Null" -> IterRet(it, FALSE)
      [] it.k = "Error" -> IterRet(it, FALSE)
      [] it.k = "Count" -> CountNext(it)
      [] it.k = "Recursive" -> RecursiveNext(it)
      [] it.k = "Morph" -> MorphNext(it)
      [] it.k = "Fixed" -> FixedNext(it)
      [] it.k = "And" -> AndNext(it)
      [] it.k = "Or" -> OrNext(it)
      [] it.k = "Unique" -> UniqueNext(it)
      [] it.k = "Save" -> SaveStep(it, IterNext(it.it))
      [] it.k = "Skip" -> SkipNext(it)
      [] it.k = "Limit" -> LimitNext(it)
      [] it.k = "Test" -> IterRet(it, it.NextVal)
      [] it.k = "ValueFilter" -> ValueFilterNext(it)

Contains(it, v) ==
    CASE it.k = "Null" -> IterRet(it, FALSE)
      [] it.k = "Error" -> IterRet(it, FALSE)
      [] it.k = "Count" -> CountContains(it, v)
      [] it.k = "Recursive" -> RecursiveContains(it, v)
      [] it.k = "Fixed" -> FixedContains(it, v)
      [] it.k = "And" -> AndContains(it, v)
      [] it.k = "Or" -> OrContainsFrom(it, 1, v)
      [] it.k = "Unique" ->
           LET c == Contains(it.subIt, v) IN IterRet([it EXCEPT !.subIt = c.it], c.ok)
      [] it.k = "Save" ->
           LET c == Contains(it.it, v) IN IterRet([it EXCEPT !.it = c.it], c.ok)
      [] it.k = "Skip" ->
           LET c == Contains(it.primaryIt, v)
           IN  IterRet([it EXCEPT !.primaryIt = c.it], c.ok)
      [] it.k = "Limit" ->
           LET c == Contains(it.primaryIt, v)
           IN  IterRet([it EXCEPT !.primaryIt = c.it], c.ok)
      [] it.k = "Test" -> IterRet(it, FALSE)
      [] it.k = "ValueFilter" -> ValueFilterContains(it, v)

Result(it) ==
    CASE it.k = "Null" -> 0
      [] it.k = "Error" -> 0
      [] it.k = "Count" -> it.result
      [] it.k = "Recursive" -> it.result.val
      [] it.k = "Morph" -> IF it.i = 0 THEN 0 ELSE it.rows[it.i].ref
      [] it.k = "Fixed" -> it.result
      [] it.k = "And" -> it.result
      [] it.k = "Or" -> IF it.cur \in 1..Len(it.sub) THEN Result(it.sub[it.cur]) ELSE 0
      [] it.k = "Unique" -> it.result
      [] it.k = "Save" -> Result(it.it)
      [] it.k = "Skip" -> Result(it.primaryIt)
      [] it.k = "Limit" -> Result(it.primaryIt)
      [] it.k = "Test" -> 0
      [] it.k = "ValueFilter" -> it.result

\* dst[tag] = v for every tag of the list
RECURSIVE TagAll(_, _, _)
TagAll(dst, tags, v) ==
    IF Len(tags) = 0 THEN dst ELSE TagAll(MapSet(dst, Head(tags), v), Tail(tags), v)

RECURSIVE TagSubs(_, _, _)
TagSubs(subs, i, dst) ==
    IF i > Len(subs) THEN dst ELSE TagSubs(subs, i + 1, TagResults(subs[i], dst))

RECURSIVE TagOptional(_, _, _)
TagOptional(it, i, dst) ==
    IF i > Len(it.opt) THEN dst
    ELSE TagOptional(it, i + 1,
                     IF it.optOk[i] THEN TagResults(it.opt[i], dst) ELSE dst)

\* Save.TagResults: the tags of the sub-iterator, then the tags bound to the
\* result, then the fixed tags
SaveTagResults(it, dst) ==
    MapMerge(TagAll(TagResults(it.it, dst), it.tags, Result(it)), it.fixedTags)

\* Recursive.TagResults: the depth tags, the tags of the path of the base ref,
\* then whatever nextIt tags on the row it stands on
RecursiveTagResults(it, dst) ==
    LET paths == IF it.containsValue # 0 THEN MapSeq(it.pathMap, it.containsValue)
                 ELSE <<>>
        d1 == TagAll(dst, it.depthTags, QuadInt(it.result.depth))
        d2 == IF Len(paths) # 0 THEN MapMerge(d1, paths[it.pathIndex + 1]) ELSE d1
    IN  MapDel(TagResults(it.nextIt, d2), "__base_recursive")

TagResults(it, dst) ==
    CASE it.k = "Null" -> dst
      [] it.k = "Error" -> dst
      [] it.k = "Count" -> dst
      [] it.k = "Recursive" -> RecursiveTagResults(it, dst)
      [] it.k = "Morph" -> IF it.i = 0 THEN dst ELSE MapMerge(dst, it.rows[it.i].tags)
      [] it.k = "Fixed" -> dst
      [] it.k = "And" -> TagOptional(it, 1, TagSubs(it.sub, 1, dst))
      [] it.k = "Or" ->
           IF it.cur \in 1..Len(it.sub) THEN TagResults(it.sub[it.cur], dst) ELSE dst
      [] it.k = "Unique" -> TagResults(it.subIt, dst)
      [] it.k = "Save" -> SaveTagResults(it, dst)
      [] it.k = "Skip" -> TagResults(it.primaryIt, dst)
      [] it.k = "Limit" -> TagResults(it.primaryIt, dst)
      [] it.k = "Test" -> dst
      [] it.k = "ValueFilter" -> TagResults(it.sub, dst)

\* Skip.NextPath: the paths still to skip are skipped first
RECURSIVE SkipNextPath(_)
SkipPath(it, p) ==
    IF it.skipped < it.skip
    THEN IF ~p.ok THEN IterRet([it EXCEPT !.primaryIt = p.it], FALSE)
         ELSE SkipNextPath([it EXCEPT !.primaryIt = p.it, !.skipped = it.skipped + 1])
    ELSE IterRet([it EXCEPT !.primaryIt = p.it], p.ok)
SkipNextPath(it) == SkipPath(it, NextPath(it.primaryIt))

NextPath(it) ==
    CASE it.k = "Null" -> IterRet(it, FALSE)
      [] it.k = "Error" -> IterRet(it, FALSE)
      [] it.k = "Fixed" -> IterRet(it, FALSE)
      [] it.k = "Unique" -> IterRet(it, FALSE)
      [] it.k = "Count" -> IterRet(it, FALSE)
      [] it.k = "Save" -> SaveStep(it, NextPath(it.it))
      [] it.k = "Skip" -> SkipNextPath(it)
      [] it.k = "Recursive" -> RecursiveNextPath(it)
      [] it.k = "Test" -> IterRet(it, FALSE)
      [] it.k = "ValueFilter" -> ValueFilterNextPath(it)

Reset(it) ==
    CASE it.k = "Null" -> it
      [] it.k = "Error" -> it
      [] it.k = "Fixed" -> [it EXCEPT !.lastIndex = 0]
      [] it.k = "Unique" ->
           [it EXCEPT !.result = 0, !.subIt = Reset(it.subIt), !.seen = {}]
      [] it.k = "Count" ->
           [it EXCEPT !.done = FALSE, !.result = 0, !.it = Reset(it.it)]
      [] it.k = "Save" -> [it EXCEPT !.it = Reset(it.it)]
      [] it.k = "Skip" -> [it EXCEPT !.skipped = 0, !.primaryIt = Reset(it.primaryIt)]
      [] it.k = "Recursive" -> RecursiveReset(it)
      [] it.k = "Test" -> it
      [] it.k = "ValueFilter" -> ValueFilterReset(it)

\* Size(): the number of rows and whether it is exact; the estimate Unique and
\* Recursive give is never exact
SkipSize(it, sz) ==
    IF sz.exact
    THEN [n |-> IF sz.n - it.skip < 0 THEN 0 ELSE sz.n - it.skip, exact |-> TRUE]
    ELSE sz
Size(it) ==
    CASE it.k = "Null" -> [n |-> 0, exact |-> TRUE]
      [] it.k = "Fixed" -> [n |-> Len(it.values), exact |-> TRUE]
      [] it.k = "Unique" -> [n |-> Size(it.subIt).n \div 2, exact |-> FALSE]
      [] it.k = "Save" -> Size(it.it)
      [] it.k = "Skip" -> SkipSize(it, Size(it.primaryIt))
      [] it.k = "Recursive" -> [n |-> 0, exact |-> FALSE]
      [] it.k = "Test" -> [n |-> 0, exact |-> TRUE]
      [] it.k = "ValueFilter" -> [n |-> Size(it.sub).n \div 2, exact |-> FALSE]

\* ---------------------------------------------------------------- BuildIterator
RECURSIVE BuildIterator(_)

\* it.AddFixedTag(k, v) for every entry of the map
AddFixedTags(sv, tags) == [sv EXCEPT !.fixedTags = MapMerge(sv.fixedTags, tags)]

\* iteratorShape.BuildIterator: the iterator it holds the first time, an error
\* iterator afterwards; s is the shape after the call
ErrUsed == ErrorsNew("iterator already used in query")
iteratorShape(it) == [k |-> "iteratorShape", it |-> it, sent |-> FALSE]
iteratorShapeBuildIterator(s) ==
    IF s.sent THEN [s |-> s, it |-> NewError(ErrUsed)]
    ELSE [s |-> [s EXCEPT !.it = Nil, !.sent = TRUE], it |-> s.it]

BuildAll(m) == [i \in 1..Len(m) |-> BuildIterator(m[i])]
AnyPanic(its) == \E i \in 1..Len(its) : its[i] = Panic

IntersectBuildIterator(m) ==
    IF Len(m) = 0 THEN NewNull
    ELSE LET sub == BuildAll(m)
         IN  IF AnyPanic(sub) THEN Panic
             ELSE IF Len(sub) = 1 THEN sub[1]
             ELSE NewAnd(sub)

UnionBuildIterator(m) ==
    IF Len(m) = 0 THEN NewNull
    ELSE LET sub == BuildAll(m)
         IN  IF AnyPanic(sub) THEN Panic
             ELSE IF Len(sub) = 1 THEN sub[1]
             ELSE NewOr(sub)

IntersectOptionalBuildIterator(s) ==
    LET it == IntersectBuildIterator(s.i)
    IN  IF it = Panic THEN Panic
        ELSE IF Len(s.o) = 0 THEN it
        ELSE
        LET and == IF it.k = "And" THEN it ELSE NewAnd(<<it>>)
            opt == BuildAll(s.o)
        IN  IF AnyPanic(opt) THEN Panic
            ELSE [and EXCEPT !.opt = opt, !.optOk = [i \in 1..Len(opt) |-> FALSE]]

PageBuildIterator(s) ==
    IF IsNull(s.from) THEN NewNull
    ELSE LET it  == BuildIterator(s.from)
             it1 == IF s.skip > 0 THEN NewSkip(it, s.skip) ELSE it
         IN  IF it = Panic THEN Panic
             ELSE IF s.limit > 0 THEN NewLimit(it1, s.limit) ELSE it1

\* s.BuildIterator() through the Shape interface, for the shapes that need
\* no quad index; AllNodes is the one bound to the store
BuildIterator(s) ==
    CASE s.k = "nil" -> Panic
      [] s.k = "Null" -> NewNull
      [] s.k = "AllNodes" -> NewFixed(StoreNodes)
      [] s.k = "Fixed" -> NewFixed(s.v)
      [] s.k = "FixedTags" ->
           IF IsNull(s.on) THEN NewNull
           ELSE LET it == BuildIterator(s.on)
                IN  IF it = Panic THEN Panic ELSE AddFixedTags(NewSave(it, <<>>), s.tags)
      [] s.k = "Union" -> UnionBuildIterator(s.m)
      [] s.k = "Page" -> PageBuildIterator(s)
      [] s.k = "Unique" ->
           IF IsNull(s.from) THEN NewNull
           ELSE LET it == BuildIterator(s.from)
                IN  IF it = Panic THEN Panic ELSE NewUnique(it)
      [] s.k = "Save" ->
           IF IsNull(s.from) THEN NewNull
           ELSE LET it == BuildIterator(s.from)
                IN  IF it = Panic THEN Panic
                    ELSE IF Len(s.tags) # 0 THEN NewSave(it, s.tags) ELSE it
      [] s.k = "Intersect" -> IntersectBuildIterator(s.m)
      [] s.k = "IntersectOptional" -> IntersectOptionalBuildIterator(s)
      [] s.k = "iteratorShape" -> iteratorShapeBuildIterator(s).it

\* the rows a drain by Next gives: the result and the tags of each
RECURSIVE DrainFrom(_)
DrainFrom(it) ==
    LET n == IterNext(it)
    IN  IF ~n.ok THEN <<>>
        ELSE <<[ref |-> Result(n.it), tags |-> TagResults(n.it, EmptyMap)]>>
             \o DrainFrom(n.it)

\* the rows of the iterator built from a shape; panic tells that building panics
Rows(s) ==
    LET it == BuildIterator(s)
    IN  IF it = Panic THEN [panic |-> TRUE, rows |-> <<>>]
        ELSE [panic |-> FALSE, rows |-> DrainFrom(it)]

RowRefs(rows) == [i \in 1..Len(rows) |-> rows[i].ref]
\* how often ref v is among the results
CountOf(seq, v) == Cardinality({i \in 1..Len(seq) : seq[i] = v})
SameMultiset(s1, s2) ==
    /\ Len(s1) = Len(s2)
    /\ \A i \in 1..Len(s1) : CountOf(s1, s1[i]) = CountOf(s2, s1[i])

\* ---------------------------------------------------------------- machine
\* The shapes a caller hands to Optimize, to AddFilters and to BuildIterator.
SeqsUpTo(S, n) == UNION {[1..k -> S] : k \in 0..n}
RefSeq == [i \in 1..MaxRef |-> i]
\* values of a Fixed long enough for every window of nested pages
PageRows == [i \in 1..(3 * MaxPage) |-> i]
PageArgs == 0..MaxPage

Level0 == {Null, AllNodes, Fixed(<<>>), Fixed(<<1>>), Fixed(RefSeq)}
Wrap(x) == {Save(<<"a">>, x), FixedTags([a |-> MaxRef], x), Unique(x)}
WrapPage(x) == {Page(x, s, l) : s \in PageArgs, l \in PageArgs}
Wrapped(X) == UNION {Wrap(x) \cup WrapPage(x) : x \in X}

Members ==
    Level0 \cup {Save(<<"a">>, AllNodes), FixedTags([a |-> MaxRef], Fixed(<<1>>)),
                 Page(Fixed(RefSeq), 1, 0), Unique(Fixed(<<1, 1>>))}
Composite ==
    {Intersect(m) : m \in SeqsUpTo(Members, MaxMembers)}
    \cup {Union(m) : m \in SeqsUpTo(Members, MaxMembers)}
    \cup {Union(m) : m \in SeqsUpTo({Nil, Null, Fixed(<<1>>)}, MaxMembers)}
SmallComposite ==
    {Intersect(m) : m \in SeqsUpTo({Null, AllNodes, Fixed(<<1>>)}, 2)}
    \cup {Union(m) : m \in SeqsUpTo({Null, AllNodes, Fixed(<<1>>)}, 2)}
Nested ==
    {Intersect(<<c, x>>) : c \in SmallComposite, x \in Level0}
    \cup {Union(<<x, c>>) : c \in SmallComposite, x \in Level0}
    \cup Wrapped(Level0 \cup SmallComposite)
    \cup UNION {Wrap(x) : x \in Wrapped(Level0)}

RequiredMembers == {Null, AllNodes, Fixed(<<>>), Fixed(RefSeq), Save(<<"a">>, AllNodes)}
OptionalMembers ==
    {Null, Fixed(<<>>), Fixed(<<1>>), Save(<<"b">>, Union(<<Fixed(<<1>>)>>))}
Optionals ==
    {IntersectOptional(i, o) : i \in SeqsUpTo(RequiredMembers, 2),
                               o \in SeqsUpTo(OptionalMembers, MaxMembers)}

PageSources == {AllNodes, Fixed(PageRows), Unique(Fixed(<<1, 1, 2>>))}
Pages ==
    {Page(Page(x, w[3], w[4]), w[1], w[2]) :
        x \in PageSources, w \in PageArgs \X PageArgs \X PageArgs \X PageArgs}

QuadValues ==
    {Fixed(<<>>), Fixed(<<1>>), Fixed(RefSeq), Union(<<Fixed(<<1>>)>>),
     Save(<<"a">>, AllNodes)}
QuadFilters == {QuadFilter(d, v) : d \in {"s", "o"}, v \in QuadValues}
QuadShapes ==
    LET qs == {Quads(q) : q \in SeqsUpTo(QuadFilters, 2)}
        nf == {NodesFrom("s", q) : q \in qs}
    IN  qs \cup nf \cup {Intersect(<<Fixed(<<1>>), n>>) : n \in nf}
           \cup {QuadsAction(0, "s", EmptyMap, [o |-> 1])}
\* QuadsActions over the indexed store: constraints matching 0, 1, 2 and 3
\* quads, with and without saved tags, and one with its Size already set
IndexedShapes ==
    {QuadsAction(n, d, sv, f) :
        n \in {0, 2}, d \in {"s", "o"},
        sv \in {EmptyMap, [o |-> <<"a">>], [s |-> <<"a">>, o |-> <<"b">>]},
        f \in {EmptyMap, [o |-> 1], [o |-> 2], [s |-> 1], [s |-> 1, o |-> 1], [s |-> 2, o |-> 2]}}

FilterNames == {"f1", "f2"}
FilterLists == SeqsUpTo(FilterNames, 2)
ValLeaves == {NullV, Values(<<>>), Values(<<1>>)}
ValShapes ==
    ValLeaves
    \cup {Filter(x, a) : x \in ValLeaves, a \in FilterLists}
    \cup {Filter(Filter(x, a), b) : x \in ValLeaves, a \in FilterLists, b \in FilterLists}

Shapes == Level0 \cup Composite \cup Nested \cup Optionals \cup Pages \cup QuadShapes
Optimizers == {NilOptimizer, DumbOptimizer}

\* the shapes whose iterator needs no quad index
RECURSIVE Buildable(_)
AllBuildable(m) == \A j \in 1..Len(m) : Buildable(m[j])
Buildable(s) ==
    CASE s.k \in {"nil", "Null", "AllNodes", "Fixed"} -> TRUE
      [] s.k = "FixedTags" -> Buildable(s.on)
      [] s.k \in {"Page", "Unique", "Save"} -> Buildable(s.from)
      [] s.k \in {"Union", "Intersect"} -> AllBuildable(s.m)
      [] s.k = "IntersectOptional" -> AllBuildable(s.i) /\ AllBuildable(s.o)
      [] OTHER -> FALSE

Init ==
    /\ \/ shape \in Shapes \cup ValShapes /\ optimizer \in Optimizers
       \/ shape \in IndexedShapes /\ optimizer = IndexOptimizer
       \/ shape \in QuadShapes \cup Pages /\ optimizer = NosqlOptimizer
    /\ res = Nil
    /\ res2 = Nil
    /\ srows = Nil
    /\ orows = Nil
    /\ fs = <<>>
    /\ stage = "new"
    /\ iter = Nil
    /\ fresh = Nil
    /\ log = <<>>

\* s, opt := shape.Optimize(r)
DoOptimize ==
    /\ stage = "new"
    /\ res' = Optimize(optimizer, shape)
    /\ stage' = "optimized"
    /\ UNCHANGED <<shape, optimizer, res2, srows, orows, fs, iter, fresh, log>>

\* the shape returned is optimized once more, as a second pass over a query does
Reoptimize ==
    /\ stage = "optimized"
    /\ res.sout \notin {Panic, Nil}
    /\ res2' = Optimize(optimizer, res.sout)
    /\ stage' = "reoptimized"
    /\ UNCHANGED <<shape, optimizer, res, srows, orows, fs, iter, fresh, log>>

\* query.Optimize hands out Null for a nil result
NullIfNil(s) == IF s = Nil THEN Null ELSE s

\* query.Optimize without its store pass
QueryOptimizeNoStore(g, qs) ==
    IF g.sout = Nil THEN Ret(Null, TRUE, g.arg) ELSE g

\* query.Optimize(s, qs): the generic pass, then one pass with the store
\* when the store is an Optimizer (qs is the optimizer; nil is no store)
\* the end of query.Optimize: o is what the store pass returned
QueryOptimizeEnd(g, o) ==
    IF o.sout = Panic THEN Panicked(g.arg)
    ELSE IF o.sout = Nil THEN Ret(Null, TRUE, g.arg)
    ELSE Ret(o.sout, g.opt \/ o.opt, g.arg)

\* query.Optimize past the generic pass: g is what s.Optimize(nil) returned
QueryOptimizeStore(g, qs) ==
    IF g.sout = Panic THEN g
    ELSE IF g.sout = Nil THEN Ret(Null, TRUE, g.arg)
    ELSE IF qs = NilOptimizer THEN g
    ELSE QueryOptimizeEnd(g, Optimize(qs, g.sout))

QueryOptimize(s, qs) ==
    IF s = Nil THEN Ret(Nil, FALSE, s)
    ELSE QueryOptimizeStore(Optimize(NilOptimizer, s), qs)

\* s, opt := query.Optimize(shape, qs)
DoQueryOptimize ==
    /\ stage = "new"
    /\ res' = QueryOptimize(shape, optimizer)
    /\ stage' = "queried"
    /\ UNCHANGED <<shape, optimizer, res2, srows, orows, fs, iter, fresh, log>>

\* one more pass of the store over the shape query.Optimize returned
StorePass ==
    /\ stage = "queried"
    /\ optimizer # NilOptimizer
    /\ res.sout # Panic
    /\ res2' = Optimize(optimizer, res.sout)
    /\ stage' = "passed"
    /\ UNCHANGED <<shape, optimizer, res, srows, orows, fs, iter, fresh, log>>

\* the iterators of the shape and of the optimized shape are built and drained
DoBuild ==
    /\ stage = "optimized"
    /\ Buildable(shape)
    /\ res.sout # Panic
    /\ Buildable(res.sout)
    /\ srows' = Rows(shape)
    /\ orows' = Rows(NullIfNil(res.sout))
    /\ stage' = "built"
    /\ UNCHANGED <<shape, optimizer, res, res2, fs, iter, fresh, log>>

\* AddFilters(shape, filters...)
DoAddFilters ==
    /\ stage = "new"
    /\ shape \in ValShapes
    /\ \E filters \in FilterLists :
         /\ fs' = filters
         /\ res' = Ret(AddFilters(shape, filters), FALSE, shape)
    /\ stage' = "added"
    /\ UNCHANGED <<shape, optimizer, res2, srows, orows, iter, fresh, log>>

Next ==
    \/ DoOptimize \/ Reoptimize \/ DoBuild \/ DoAddFilters
    \/ DoQueryOptimize \/ StorePass

Spec == Init /\ [][Next]_vars

\* ---------------------------------------------------------------- iterator calls
\* BuildIterator of a bindable shape that was not bound to a store
UnboundClean(s) == NewNull
UnboundBuildIterator(s) ==
    CASE s.k \in {"AllNodes", "Lookup", "Quads", "NodesFrom", "ValuesToRefs"} ->
           NewError(ErrNoQuadStore)
      [] s.k = "RefsToValues" -> NewError(ErrNoQuadStore)

\* number of calls made on one iterator
MaxCalls == 3
\* the refs of the graph a Recursive iterator walks
RecRefs == 1..(MaxRef + 1)
\* the successors of each ref under the morphism: a chain, a cycle, a fan-out
\* with a join, and self-loops
StepChain == [x \in RecRefs |-> IF x < MaxRef + 1 THEN <<x + 1>> ELSE <<>>]
StepCycle == [x \in RecRefs |-> IF x < MaxRef + 1 THEN <<x + 1>> ELSE <<1>>]
StepFan == [x \in RecRefs |-> IF x = 1 THEN <<2, 3>> ELSE IF x = 2 THEN <<3>> ELSE <<>>]
StepLoop == [x \in RecRefs |-> IF x = 1 THEN <<1, 2>> ELSE <<x>>]
Steps == {StepChain, StepCycle, StepFan, StepLoop}
BaseSets == {<<>>, <<1>>, <<1, 1>>, <<2, 1>>}
MaxDepths == {-1, 0, 1, 2}
\* followRecursiveMorphism: NewRecursive over the iterator of the base, with
\* the depth tags added
FollowRecursive(in, step, mtag, maxDepth, depthTags) ==
    IF Len(depthTags) = 0 THEN NewRecursive(in, step, mtag, maxDepth)
    ELSE AddDepthTag(NewRecursive(in, step, mtag, maxDepth), depthTags[1])
Recursives ==
    {FollowRecursive(NewFixed(b), st, FALSE, d, <<>>) :
        b \in BaseSets, st \in Steps, d \in MaxDepths}
    \cup {FollowRecursive(NewSave(NewFixed(b), <<"b">>), st, TRUE, d, <<"d">>) :
        b \in BaseSets, st \in Steps, d \in MaxDepths}
FixedIters == {NewFixed(b) : b \in BaseSets \cup {<<1, 2, 3>>}}
PlainIters ==
    FixedIters
    \cup {NewUnique(f) : f \in FixedIters}
    \cup {NewSkip(f, n) : f \in FixedIters, n \in 0..2}
    \cup {NewSave(f, <<"t">>) : f \in FixedIters}
Counts ==
    {NewCount(c) : c \in PlainIters \cup {NewNull}}
    \cup {NewCount(r) : r \in {x \in Recursives : x.step \in {StepChain, StepLoop}
                                                      /\ x.maxDepth # 2}}
Iterators ==
    PlainIters \cup Counts \cup Recursives \cup {NewSave(r, <<"t">>) : r \in Recursives}
Unbound ==
    {AllNodes, Lookup(<<"v1">>), Quads(<<>>), NodesFrom("s", Quads(<<>>)),
     ValuesToRefs(Values("f")), RefsToValues(AllNodes)}

\* one call and what it returned: the result and the tags read after it
Call(op, v, ok, it) ==
    [op |-> op, v |-> v, ok |-> ok, ref |-> Result(it),
     tags |-> TagResults(it, EmptyMap)]

IterInit ==
    /\ \/ shape \in Unbound /\ iter = Nil /\ stage = "unbound"
       \/ shape = Nil /\ iter \in Iterators /\ stage = "iter"
    /\ fresh = iter
    /\ log = <<>>
    /\ optimizer = NilOptimizer
    /\ res = Nil
    /\ res2 = Nil
    /\ srows = Nil
    /\ orows = Nil
    /\ fs = <<>>

\* it := s.BuildIterator() on a shape no store was bound to
BuildUnbound ==
    /\ stage = "unbound"
    /\ iter' = UnboundBuildIterator(shape)
    /\ fresh' = iter'
    /\ stage' = "iter"
    /\ UNCHANGED <<shape, optimizer, res, res2, srows, orows, fs, log>>

Called(op, v, r) ==
    /\ iter' = r.it
    /\ log' = Append(log, Call(op, v, r.ok, r.it))
    /\ UNCHANGED <<shape, optimizer, res, res2, srows, orows, fs, stage, fresh>>

\* the values Contains is asked about: refs, and for Count the integers, a ref
\* being no integer value
ContainsArgs(it) ==
    IF it.k = "Count" THEN {QuadInt(n) : n \in 0..(MaxRef + 1)} ELSE RecRefs

\* it.Next(ctx)
ItNext ==
    /\ stage = "iter"
    /\ Len(log) < MaxCalls
    /\ Called("Next", 0, IterNext(iter))

\* it.Contains(ctx, v)
ItContains ==
    /\ stage = "iter"
    /\ Len(log) < MaxCalls
    /\ \E v \in ContainsArgs(iter) : Called("Contains", v, Contains(iter, v))

\* it.NextPath(ctx)
ItNextPath ==
    /\ stage = "iter"
    /\ Len(log) < MaxCalls
    /\ Called("NextPath", 0, NextPath(iter))

\* it.Reset()
ItReset ==
    /\ stage = "iter"
    /\ Len(log) < MaxCalls
    /\ Called("Reset", 0, IterRet(Reset(iter), TRUE))

IterNextStep == BuildUnbound \/ ItNext \/ ItContains \/ ItNextPath \/ ItReset

IterSpec == IterInit /\ [][IterNextStep]_vars

\* a caller that drains a Recursive iterator: it calls Next again and again,
\* and log keeps the last call only
DrainInit ==
    /\ iter \in Recursives
    /\ fresh = iter
    /\ log = <<>>
    /\ stage = "iter"
    /\ shape = Nil
    /\ optimizer = NilOptimizer
    /\ res = Nil
    /\ res2 = Nil
    /\ srows = Nil
    /\ orows = Nil
    /\ fs = <<>>

DrainCalled(r) ==
    /\ iter' = r.it
    /\ log' = <<Call("Next", 0, r.ok, r.it)>>
    /\ UNCHANGED <<shape, optimizer, res, res2, srows, orows, fs, stage, fresh>>

\* for it.Next(ctx) { ... }
DrainNext == stage = "iter" /\ \E r \in {IterNext(iter)} : DrainCalled(r)

DrainSpec == DrainInit /\ [][DrainNext]_vars /\ WF_vars(DrainNext)

\* ---------------------------------------------------------------- properties
\* the shape trees of Null, AllNodes, Fixed, Save, FixedTags, Intersect,
\* Union, Page and Unique
RECURSIVE GenericFamily(_)
GenericFamily(s) ==
    CASE s.k \in {"Null", "AllNodes", "Fixed"} -> TRUE
      [] s.k = "FixedTags" -> GenericFamily(s.on)
      [] s.k \in {"Page", "Unique", "Save"} -> GenericFamily(s.from)
      [] s.k \in {"Union", "Intersect"} -> \A j \in 1..Len(s.m) : GenericFamily(s.m[j])
      [] OTHER -> FALSE

Optimized == stage = "optimized" /\ optimizer = NilOptimizer
Built == stage = "built" /\ optimizer = NilOptimizer

NotNull(s) == ~IsNull(s)
\* each member optimized on its own
OptimizedMembers(m) ==
    [j \in 1..Len(m) |-> IF m[j] = Nil THEN Nil ELSE Optimize(NilOptimizer, m[j]).sout]
HasKind(m, kind) == \E j \in 1..Len(m) : m[j].k = kind

\* C1: the iterator built from the generically optimized shape yields the
\* same multiset of result refs as the iterator built from the original shape
\* (shapes of Null, AllNodes, Fixed, Save, FixedTags, Intersect, Union, Page,
\* Unique).
C1_SameRefs ==
    (Built /\ GenericFamily(shape))
        => /\ ~srows.panic
           /\ ~orows.panic
           /\ SameMultiset(RowRefs(srows.rows), RowRefs(orows.rows))

\* C2: the generic optimizer is idempotent: optimizing the shape it returned
\* returns that shape again.
C2_Idempotent ==
    (stage = "reoptimized" /\ optimizer = NilOptimizer) => res2.sout = res.sout

\* a state where a call rewrote members of a slice
C3_Witness ==
    /\ stage = "optimized"
    /\ shape.k \in {"Intersect", "Union", "IntersectOptional", "Quads"}
    /\ res.opt
    /\ res.sout \notin {Nil, Panic}
    /\ res.sout # shape

\* C3: Optimize never modifies the shape it is given: after the call the
\* receiver, with every slice and map reachable from it, is as it was before,
\* whether or not a rewrite was made and whichever optimizer was given.
C3_InputUntouched ==
    /\ stage \in {"optimized", "reoptimized", "built"} => res.arg = shape
    /\ stage = "reoptimized" => res2.arg = res.sout

\* some Intersect of s, or the required part of some IntersectOptional of s,
\* has a Null or nil member
RECURSIVE HasNullInIntersect(_)
HasNullInIntersect(s) ==
    CASE s.k = "Intersect" ->
           \E j \in 1..Len(s.m) : IsNull(s.m[j]) \/ HasNullInIntersect(s.m[j])
      [] s.k = "IntersectOptional" ->
           \/ \E j \in 1..Len(s.i) : IsNull(s.i[j]) \/ HasNullInIntersect(s.i[j])
           \/ \E j \in 1..Len(s.o) : HasNullInIntersect(s.o[j])
      [] s.k = "Union" -> \E j \in 1..Len(s.m) : HasNullInIntersect(s.m[j])
      [] s.k = "FixedTags" -> HasNullInIntersect(s.on)
      [] s.k \in {"Page", "Unique", "Save"} -> HasNullInIntersect(s.from)
      [] OTHER -> FALSE

\* C4: after Optimize no Intersect of the result, the required part of an
\* IntersectOptional included, has a Null or nil member; when the required
\* part of an IntersectOptional reduces to Null the whole result is Null.
C4_NoNullInIntersect ==
    (Optimized /\ Buildable(shape) /\ res.sout # Panic)
        => /\ ~HasNullInIntersect(res.sout)
           /\ (shape.k = "IntersectOptional"
               /\ IsNull(Optimize(NilOptimizer, Intersect(shape.i)).sout))
                  => IsNull(res.sout)

\* C5: optimizing a Union removes every Null or nil member, wherever and
\* however many they are, and keeps the other members in order; no member
\* left gives Null, a single member left gives that member.
C5_UnionDropsNull ==
    (Optimized /\ shape.k = "Union" /\ ~HasKind(OptimizedMembers(shape.m), "FixedTags"))
        => LET kept == SelectSeq(OptimizedMembers(shape.m), NotNull)
           IN  CASE Len(kept) = 0 -> IsNull(res.sout)
                 [] Len(kept) = 1 -> res.sout = kept[1]
                 [] OTHER -> res.sout = Union(kept)

\* the members with each Save replaced by what it saves, and the tags of
\* the Save members in order
Unsaved(m) == [j \in 1..Len(m) |-> IF m[j].k = "Save" THEN m[j].from ELSE m[j]]
RECURSIVE SavedTags(_)
SavedTags(m) ==
    IF Len(m) = 0 THEN <<>>
    ELSE (IF m[1].k = "Save" THEN m[1].tags ELSE <<>>) \o SavedTags(Tail(m))

\* C6: optimizing an Intersect with Save members returns a Save of all their
\* tags over the optimized intersection of the members with each Save
\* replaced by what it saves, whatever the other members are.
C6_SaveHoisted ==
    (Optimized /\ shape.k = "Intersect" /\ GenericFamily(shape)
     /\ HasKind(shape.m, "Save") /\ ~HasKind(OptimizedMembers(shape.m), "FixedTags"))
        => LET inner == Optimize(NilOptimizer, Intersect(Unsaved(shape.m))).sout
           IN  IF IsNull(inner) THEN IsNull(res.sout)
               ELSE res.sout = Save(SavedTags(shape.m), inner)

\* a page over a page over x
NestedPages == shape.k = "Page" /\ shape.from.k = "Page"
\* the tighter of the limits l1 and l2 - s1, where 0 is no limit
TighterLimit(l1, l2, s1) ==
    IF l2 = 0 THEN l1
    ELSE IF l1 = 0 THEN l2 - s1
    ELSE IF l1 < l2 - s1 THEN l1 ELSE l2 - s1
\* what the claim gives for Page{s1, l1} over Page{s2, l2} over x
MergedPage(x, s1, l1, s2, l2) ==
    IF l2 > 0 /\ l2 - s1 <= 0 THEN Nil
    ELSE Page(x, s1 + s2, TighterLimit(l1, l2, s1))

\* C7 as stated: Page{s1, l1} over Page{s2, l2} over x optimizes to a single
\* Page over x with skip s1+s2 and the tighter of the limits l1 and l2-s1, or
\* to Null when l2 > 0 and l2-s1 <= 0, and selects the rows of the nested pair.
C7_SinglePage ==
    (Built /\ NestedPages)
        => /\ res.sout = MergedPage(Optimize(NilOptimizer, shape.from.from).sout,
                                    shape.skip, shape.limit,
                                    shape.from.skip, shape.from.limit)
           /\ orows = srows

\* nested pages with a skip and limits on both, merged to a page with rows
C7_Witness ==
    /\ Built /\ NestedPages
    /\ shape.skip > 0 /\ shape.limit > 0 /\ shape.from.skip > 0
    /\ shape.from.limit > shape.skip
    /\ res.sout.k = "Page"
    /\ Len(orows.rows) > 0

\* C7 amended: as C7, except that with s1 = l1 = s2 = l2 = 0 the result is
\* the optimized x itself, not a Page over it.
C7_SinglePageOrSource ==
    (Built /\ NestedPages)
        => LET x == Optimize(NilOptimizer, shape.from.from).sout
           IN  /\ res.sout =
                    IF shape.skip = 0 /\ shape.limit = 0
                       /\ shape.from.skip = 0 /\ shape.from.limit = 0
                    THEN x
                    ELSE MergedPage(x, shape.skip, shape.limit,
                                    shape.from.skip, shape.from.limit)
               /\ orows = srows

\* C8: a FixedTags member of an Intersect or of a Union is hoisted: Optimize
\* returns a FixedTags over the Intersect/Union of the unwrapped members, and
\* the rows of the rewritten shape carry the tag bindings the rows of the
\* original shape carry.
C8_FixedTagsHoisted ==
    (Built /\ shape.k \in {"Intersect", "Union"} /\ GenericFamily(shape)
     /\ HasKind(shape.m, "FixedTags"))
        => /\ IsNull(res.sout) \/ res.sout.k = "FixedTags"
           /\ ~orows.panic
           /\ SameMultiset(srows.rows, orows.rows)

\* the required part of an IntersectOptional as its Optimize optimizes it: a
\* single member on its own, else the Intersect of the members
OptimizedRequired(i) ==
    IF Len(i) = 1 THEN Optimize(NilOptimizer, i[1]).sout
    ELSE Optimize(NilOptimizer, Intersect(i)).sout

\* optional members that are Null and that optimize to Null were removed and
\* one was kept
C9_Witness ==
    /\ Optimized /\ shape.k = "IntersectOptional"
    /\ \E j \in 1..Len(shape.o) : shape.o[j] = Null
    /\ \E j \in 1..Len(shape.o) : shape.o[j] = Fixed(<<>>)
    /\ res.sout.k = "IntersectOptional"
    /\ Len(res.sout.o) = 1

\* C9: optimizing an IntersectOptional removes every optional member that is
\* Null or optimizes to Null and keeps the others, optimized, in order; when
\* none is left the result is the optimized required part alone.
C9_OptionalNullsRemoved ==
    (Optimized /\ shape.k = "IntersectOptional")
        => LET kept == SelectSeq(OptimizedMembers(shape.o), NotNull)
           IN  IF Len(kept) = 0 THEN res.sout = OptimizedRequired(shape.i)
               ELSE /\ res.sout.k = "IntersectOptional"
                    /\ res.sout.o = kept

\* a Filter with filters over a Filter with filters over a source that is
\* not empty
NestedFilters ==
    /\ shape.k = "Filter" /\ shape.from.k = "Filter"
    /\ Len(shape.filters) > 0 /\ Len(shape.from.filters) > 0
    /\ ~IsNullExpr(Optimize(NilOptimizer, shape.from.from).sout)

IndexedQuadsAction ==
    /\ stage = "optimized" /\ optimizer = IndexOptimizer
    /\ shape.k = "QuadsAction" /\ shape.size = 0

\* C11: a QuadsAction optimized against a store with a quad index that
\* reports an exact size n becomes Null when n = 0, Fixed of the quad's
\* result direction (in FixedTags binding each saved tag to the quad's ref
\* for its direction) when n = 1 and the quad is found, and Materialize
\* around the QuadsAction with Size n for any other n below
\* MaterializeThreshold.
C11_IndexedQuadsAction ==
    IndexedQuadsAction =>
        LET n  == SizeOfIndex(shape.filter).n
            l  == LookupQuadIndex(shape.filter)
            fx == Fixed(<<l.q[shape.result]>>)
        IN  /\ SizeOfIndex(shape.filter).exact
            /\ n = 0 => res.sout = Nil
            /\ (n = 1 /\ l.ok) =>
                  res.sout = IF DOMAIN shape.save = {} THEN fx
                             ELSE FixedTags(QuadTags(shape.save, l.q), fx)
            /\ (n > 1 /\ n < MaterializeThreshold) =>
                  res.sout = Materialize(n, [shape EXCEPT !.size = n])

C13_UnboundError ==
    (shape \in Unbound /\ stage = "iter") =>
        /\ iter # Panic
        /\ Err(iter) = ErrorsNew("query should be bound to quad store")
        /\ Err(iter) # NoErr
        /\ \A i \in 1..Len(log) :
              log[i].op \in {"Next", "Contains", "NextPath"} => ~log[i].ok

\* an unbound ValuesToRefs was built and asked for a row, a ref and a path
C13_Witness ==
    /\ shape = ValuesToRefs(Values("f"))
    /\ stage = "iter"
    /\ {log[i].op : i \in 1..Len(log)} = {"Next", "Contains", "NextPath"}

\* the refs a drain gives that takes every row and every further path of it
RECURSIVE DrainAll(_)
RECURSIVE DrainAllPaths(_)
DrainAll(it) ==
    LET n == IterNext(it)
    IN  IF ~n.ok THEN <<>> ELSE <<Result(n.it)>> \o DrainAllPaths(n.it)
DrainAllPaths(it) ==
    LET p == NextPath(it)
    IN  IF p.ok THEN <<Result(p.it)>> \o DrainAllPaths(p.it) ELSE DrainAll(p.it)

\* Count.Next ran since the iterator was built or last reset (Contains runs it)
CountStarted(l) ==
    \E j \in 1..Len(l) :
        /\ l[j].op \in {"Next", "Contains"}
        /\ \A m \in (j + 1)..Len(l) : l[m].op # "Reset"

\* C14: a call of Count.Next returns true if Count.Next did not run since the
\* start or the last Reset (the call Contains makes counted), and then Result is
\* Int(n), n the number of rows of the child, every Next and every NextPath
\* counted (the Size of the child when that is exact, which is the same
\* number), Int(0) for a child with no row; every later call returns false
\* until Reset.
C14_CountOnce ==
    [][(stage = "iter" /\ iter.k = "Count" /\ Len(log') = Len(log) + 1
        /\ log'[Len(log')].op = "Next") =>
          IF CountStarted(log) THEN ~log'[Len(log')].ok
          ELSE /\ log'[Len(log')].ok
               /\ log'[Len(log')].ref = QuadInt(Len(DrainAll(iter.it)))
               /\ Size(iter.it).exact => log'[Len(log')].ref = QuadInt(Size(iter.it).n)
               /\ DrainAll(iter.it) = <<>> => log'[Len(log')].ref = QuadInt(0)]_vars

\* a Count over a Recursive iterator with two paths to each ref counted four
\* rows, was reset, counted four rows again and then returned false
C14_Witness ==
    /\ stage = "iter"
    /\ iter.k = "Count"
    /\ fresh.it.k = "Recursive"
    /\ Len(log) = 3
    /\ [i \in 1..3 |-> log[i].op] = <<"Reset", "Next", "Next">>
    /\ log[2].ok /\ log[2].ref = QuadInt(4)
    /\ ~log[3].ok

\* the first call on a fresh iterator of these kinds was Contains, and it
\* agrees with a drain of the fresh iterator by Next
ContainsAsDrained(kinds) ==
    (stage = "iter" /\ fresh.k \in kinds /\ Len(log) >= 1 /\ log[1].op = "Contains") =>
        (log[1].ok <=> \E i \in 1..Len(DrainFrom(fresh)) : DrainFrom(fresh)[i].ref = log[1].v)

\* C15: for Fixed, Unique, Skip, Save and Recursive and every ref v, Contains(v)
\* on a fresh iterator returns true if and only if v is among the refs a drain
\* of the fresh iterator by Next yields.
C15_ContainsAsDrained == ContainsAsDrained({"Fixed", "Unique", "Skip", "Save", "Recursive"})

\* the Recursive iterator under call, also through a Save around it
IsRecursive(it) == it.k = "Recursive" \/ (it.k = "Save" /\ it.it.k = "Recursive")
RecursiveOf(it) == IF it.k = "Save" THEN it.it ELSE it
NoResetBefore(i) == \A j \in 1..(i - 1) : log[j].op # "Reset"

\* every Contains(v) that returned true, no Reset before it, left the tags of
\* the row of v in a drain of the fresh iterator by Next
ContainsTagsAsNext ==
    \A i \in 1..Len(log) :
        (log[i].op = "Contains" /\ log[i].ok /\ NoResetBefore(i)) =>
            \A r \in 1..Len(DrainFrom(fresh)) :
                DrainFrom(fresh)[r].ref = log[i].v => log[i].tags = DrainFrom(fresh)[r].tags

\* C16: for Recursive and Save around it, the tags TagResults gives after
\* Contains(v) returned true are the tags it gives on the Next row whose Result
\* is v, also when an earlier Next had produced v already.
C16_ContainsTags ==
    (stage = "iter" /\ IsRecursive(fresh)) => ContainsTagsAsNext

\* C17: between two resets Recursive.Next never returns a ref twice, nor a ref
\* that a Contains call in between has found, for every base set and step
\* relation, cyclic or not, and every interleaving with Contains and NextPath.
C17_NoRefTwice ==
    (stage = "iter" /\ IsRecursive(fresh)) =>
        \A i \in 1..Len(log) : \A j \in (i + 1)..Len(log) :
            (/\ log[j].op = "Next" /\ log[j].ok
             /\ log[i].op \in {"Next", "Contains"} /\ log[i].ok
             /\ \A m \in i..j : log[m].op # "Reset")
            => log[i].ref # log[j].ref

\* over a base set that holds ref 1 twice and a step with self-loops, where the
\* morphism yields 1, 2, 1, 2, Next gave 1, then 2, then returned false
C17_Witness ==
    /\ stage = "iter"
    /\ fresh.k = "Recursive"
    /\ fresh.step = StepLoop
    /\ fresh.subIt.k = "Fixed" /\ fresh.subIt.values = <<1, 1>>
    /\ Len(log) = 3
    /\ \A i \in 1..3 : log[i].op = "Next"
    /\ log[1].ok /\ log[1].ref = 1
    /\ log[2].ok /\ log[2].ref = 2
    /\ ~log[3].ok

\* C18: for every base set, every step relation over a finite graph, cycles
\* included, and every max_depth, zero, positive or negative, a caller that
\* keeps calling Recursive.Next is eventually returned false.
C18_NextEnds == <>(Len(log) = 1 /\ ~log[1].ok)

\* over the cycle 1 -> 2 -> 3 -> 1 with a negative max_depth Next returned false
\* after all three refs were seen
C18_Witness ==
    /\ fresh.step = StepCycle
    /\ fresh.maxDepth = -1
    /\ fresh.subIt.k = "Fixed" /\ fresh.subIt.values = <<1>>
    /\ Len(log) = 1 /\ ~log[1].ok
    /\ DOMAIN iter.seen = {1, 2, 3}
    /\ iter.depth = 4

\* the refs one application of step gives from the refs of S
Successors(step, S) == UNION {{step[x][i] : i \in 1..Len(step[x])} : x \in S}
\* the refs d applications of step give from S
RECURSIVE Hop(_, _, _)
Hop(step, S, d) == IF d = 0 THEN S ELSE Hop(step, Successors(step, S), d - 1)
\* the least number of applications, one at least, that gives ref from S; 0 if
\* no number does
HopOf(step, S, ref) ==
    IF \E d \in 1..Cardinality(RecRefs) : ref \in Hop(step, S, d)
    THEN CHOOSE d \in 1..Cardinality(RecRefs) :
            /\ ref \in Hop(step, S, d)
            /\ \A e \in 1..(d - 1) : ref \notin Hop(step, S, e)
    ELSE 0
\* the base set of a Recursive iterator
FixedBase(it) == IF it.k = "Save" THEN it.it ELSE it
BaseRefs(r) == {FixedBase(r.subIt).values[i] : i \in 1..Len(FixedBase(r.subIt).values)}

\* the i-th call is a Next that returned a ref found at a depth d of 1..D, the
\* depth tag, if any, bound to Int(d), and a first-hop successor when D = 1
DepthWithin(i) ==
    (log[i].op = "Next" /\ log[i].ok) =>
        /\ HopOf(RecursiveOf(fresh).step, BaseRefs(RecursiveOf(fresh)), log[i].ref)
              \in 1..RecursiveOf(fresh).maxDepth
        /\ "d" \in DOMAIN log[i].tags =>
              log[i].tags["d"] =
                QuadInt(HopOf(RecursiveOf(fresh).step, BaseRefs(RecursiveOf(fresh)),
                              log[i].ref))
        /\ RecursiveOf(fresh).maxDepth = 1 =>
              log[i].ref \in Successors(RecursiveOf(fresh).step,
                                        BaseRefs(RecursiveOf(fresh)))

\* C19: every ref Recursive.Next returns was produced at a depth d with
\* 1 <= d <= D, D being max_depth, or 50 for max_depth 0, each depth tag bound
\* to Int(d); with max_depth 1 the refs returned are first-hop successors of the
\* base set.
C19_DepthWithin ==
    (stage = "iter" /\ IsRecursive(fresh) /\ RecursiveOf(fresh).maxDepth > 0) =>
        \A i \in 1..Len(log) : DepthWithin(i)

\* the depth the search of r goes to at most: beyond the number of refs no
\* depth gives a new ref
DepthLimit(r) ==
    IF r.maxDepth > 0 /\ r.maxDepth < Cardinality(RecRefs) THEN r.maxDepth
    ELSE Cardinality(RecRefs)
\* the refs that from..DepthLimit applications of step give from the base set
Reachable(r, from) ==
    UNION {Hop(r.step, BaseRefs(r), d) : d \in from..DepthLimit(r)}
\* the refs a drain of the fresh iterator by Next gives
DrainedRefs == {DrainFrom(fresh)[i].ref : i \in 1..Len(DrainFrom(fresh))}
\* the calls made are Next calls only, and returned the rows of that drain
LogIsDrain ==
    /\ \A i \in 1..Len(log) : log[i].op = "Next"
    /\ \A i \in 1..Len(log) :
          IF i <= Len(DrainFrom(fresh))
          THEN log[i].ok /\ log[i].ref = DrainFrom(fresh)[i].ref
          ELSE ~log[i].ok

\* C20: Recursive yields every ref reachable from the base set by applying step
\* zero or more times up to max_depth, so that each ref of the base set is
\* itself among the results.
C20_ZeroOrMore ==
    (stage = "iter" /\ IsRecursive(fresh)) =>
        DrainedRefs = Reachable(RecursiveOf(fresh), 0)

\* C20, amended: Recursive yields, each once, the refs reachable from the base
\* set by applying step one or more times up to max_depth (50 for max_depth 0,
\* no limit for a negative one); a ref of the base set is among the results only
\* if one or more applications reach it.
C20_OneOrMore ==
    (stage = "iter" /\ IsRecursive(fresh)) =>
        /\ DrainedRefs = Reachable(RecursiveOf(fresh), 1)
        /\ Cardinality(DrainedRefs) = Len(DrainFrom(fresh))
        /\ (\A i \in 1..Len(log) : log[i].op = "Next") => LogIsDrain

\* over the chain 1 -> 2 -> 3 from the base set {1}, with no depth limit, Next
\* gave 2, then 3, then returned false: the base ref 1 was not among the results
C20_Witness ==
    /\ stage = "iter"
    /\ fresh.k = "Recursive"
    /\ fresh.step = StepChain /\ fresh.maxDepth = -1
    /\ BaseRefs(fresh) = {1}
    /\ Len(log) = 3 /\ LogIsDrain
    /\ log[1].ref = 2 /\ log[2].ref = 3 /\ ~log[3].ok
    /\ 1 \notin DrainedRefs

\* ------------------------------------------------------------ ValueFilter runs
\* the errors of the runs: the one the predicate returns and the one the
\* sub-iterator stops with
ErrFilter == ErrorsNew("filter")
ErrUnique == ErrorsNew("unique")
FilterFuncs ==
    {ValueFilterFunc(pass, fail, ErrFilter) :
        pass \in SUBSET (1..MaxRef), fail \in {{}, {1}, {2}}}
ValueFilterSubs ==
    {NewFixed(<<>>), NewFixed(<<1>>), NewFixed(<<1, 2>>), NewFixed(<<2, 1>>),
     NewTestVIterator(FALSE, ErrUnique), NewTestVIterator(FALSE, NoErr)}
ValueFilters ==
    {NewValueFilter(sub, f) : sub \in ValueFilterSubs,
                              f \in {g \in FilterFuncs : g.pass \cap g.fail = {}}}

ValueFilterInit ==
    /\ shape = Nil
    /\ iter \in ValueFilters
    /\ stage = "iter"
    /\ fresh = iter
    /\ log = <<>>
    /\ optimizer = NilOptimizer
    /\ res = Nil
    /\ res2 = Nil
    /\ srows = Nil
    /\ orows = Nil
    /\ fs = <<>>

ValueFilterStep == ItNext \/ ItContains \/ ItNextPath \/ ItReset

ValueFilterSpec == ValueFilterInit /\ [][ValueFilterStep]_vars

\* the iterator after the first i calls of the log
ApplyCall(c, it) ==
    CASE c.op = "Next" -> IterNext(it).it
      [] c.op = "Contains" -> Contains(it, c.v).it
      [] c.op = "NextPath" -> NextPath(it).it
      [] c.op = "Reset" -> Reset(it)
RECURSIVE StateAfter(_)
StateAfter(i) == IF i = 0 THEN fresh ELSE ApplyCall(log[i], StateAfter(i - 1))

\* the rows of the sub-iterator a Next of the filter reads: those after its
\* position up to the first one the predicate passes
RowsRead(it) ==
    IF it.sub.k # "Fixed" THEN {}
    ELSE {j \in (it.sub.lastIndex + 1)..Len(it.sub.values) :
             \A m \in (it.sub.lastIndex + 1)..(j - 1) :
                 it.sub.values[m] \notin it.filter.pass}
\* the error call c raises on iterator it: the error the predicate returns for
\* a value it is asked about, or the error the sub-iterator stops with
Raised(c, it) ==
    CASE c.op = "Next" /\ \E j \in RowsRead(it) : it.sub.values[j] \in it.filter.fail
           -> it.filter.err
      [] c.op = "Contains" /\ c.v \in it.filter.fail -> it.filter.err
      [] c.op \in {"Next", "NextPath"} /\ it.sub.k = "Test" /\ ~it.sub.NextVal
           -> it.sub.ErrVal
      [] OTHER -> NoErr
NoResetIn(j, i) == \A m \in j..i : log[m].op # "Reset"

\* C21: once the predicate of a ValueFilter has returned an error for a value,
\* or its sub-iterator has stopped with an error, every Next returns false and
\* Err() is that error after every call, until Reset
C21_ErrorSticks ==
    (stage = "iter" /\ fresh.k = "ValueFilter") =>
        \A j \in 1..Len(log) : \A i \in j..Len(log) :
            (NoResetIn(j, i) /\ Raised(log[j], StateAfter(j - 1)) # NoErr) =>
                /\ log[i].op = "Next" => ~log[i].ok
                /\ Err(StateAfter(i)) = Raised(log[j], StateAfter(j - 1))
\* a sub-iterator that stops with an error: Next is false and Err() is its error
ValueFilterSubError ==
    (stage = "iter" /\ fresh.k = "ValueFilter" /\ fresh.sub.k = "Test") =>
        \A i \in 1..Len(log) :
            log[i].op = "Next" =>
                ~log[i].ok /\ Err(StateAfter(i)) = fresh.sub.ErrVal

\* ------------------------------------------------------------ cancelled calls
\* a context.Context is live or cancelled; context.Canceled is the error of a
\* cancelled one
Background == "live"
Cancelled == "cancelled"
ErrCanceled == ErrorsNew("context canceled")

\* Next(ctx), NextPath(ctx) and Contains(ctx, v): Count, Unique, Skip,
\* ValueFilter and Recursive hand ctx to their sub-iterators and read it
\* nowhere, and Fixed, the leaf of every iterator here, does not read it either
NextCtx(ctx, it) == IterNext(it)
NextPathCtx(ctx, it) == NextPath(it)
ContainsCtx(ctx, it, v) == Contains(it, v)

CancelIters ==
    {NewUnique(f) : f \in FixedIters}
    \cup {NewSkip(f, n) : f \in FixedIters, n \in 0..1}
    \cup {NewCount(c) : c \in FixedIters \cup {NewUnique(f) : f \in FixedIters}}
    \cup {v \in ValueFilters : v.sub.k = "Fixed" /\ v.filter.fail = {}}
    \cup {r \in Recursives : r.maxDepth = 0}

CancelInit ==
    /\ shape = Nil
    /\ iter \in CancelIters
    /\ stage = "iter"
    /\ fresh = iter
    /\ log = <<>>
    /\ optimizer = NilOptimizer
    /\ res = Nil
    /\ res2 = Nil
    /\ srows = Nil
    /\ orows = Nil
    /\ fs = <<>>

\* a context once cancelled stays cancelled
Contexts ==
    IF \E i \in 1..Len(log) : log[i].ctx = Cancelled THEN {Cancelled}
    ELSE {Background, Cancelled}
CtxCalled(op, v, r, ctx) ==
    /\ iter' = r.it
    /\ log' = Append(log, [op |-> op, v |-> v, ok |-> r.ok, ref |-> Result(r.it),
                           err |-> Err(r.it), ctx |-> ctx])
    /\ UNCHANGED <<shape, optimizer, res, res2, srows, orows, fs, stage, fresh>>

\* it.Next(ctx)
CtxNext ==
    /\ stage = "iter"
    /\ Len(log) < MaxCalls
    /\ \E ctx \in Contexts : CtxCalled("Next", 0, NextCtx(ctx, iter), ctx)

\* it.NextPath(ctx)
CtxNextPath ==
    /\ stage = "iter"
    /\ Len(log) < MaxCalls
    /\ \E ctx \in Contexts : CtxCalled("NextPath", 0, NextPathCtx(ctx, iter), ctx)

\* it.Contains(ctx, v)
CtxContains ==
    /\ stage = "iter"
    /\ Len(log) < MaxCalls
    /\ \E ctx \in Contexts : \E v \in ContainsArgs(iter) :
           CtxCalled("Contains", v, ContainsCtx(ctx, iter, v), ctx)

CancelStep == CtxNext \/ CtxNextPath \/ CtxContains

CancelSpec == CancelInit /\ [][CancelStep]_vars

\* C22: a call of Next, NextPath or Contains made with a cancelled context on
\* Count, Unique, Skip, ValueFilter or Recursive returns false, and Err() then
\* reports the cancellation
C22_CancelStops ==
    (stage = "iter" /\ fresh.k \in {"Count", "Unique", "Skip", "ValueFilter", "Recursive"}) =>
        \A i \in 1..Len(log) :
            log[i].ctx = Cancelled => ~log[i].ok /\ log[i].err = ErrCanceled

\* ------------------------------------------------------------ closing
\* an iterator of the model has a field of made, nextId, closed and subClosed:
\* the step iterators made so far are numbered 1..made, nextIt is the one
\* numbered nextId (0 is the Null of the constructor), closed lists the numbers
\* of those Close was called on, subClosed counts the calls of subIt.Close
CloseIters == {r \in Recursives : r.maxDepth \in {DefaultMaxRecursiveSteps, 1}}

CloseInit ==
    /\ shape = Nil
    /\ iter \in CloseIters
    /\ stage = "iter"
    /\ fresh = iter
    /\ log = <<>>
    /\ optimizer = NilOptimizer
    /\ res = Nil
    /\ res2 = Nil
    /\ srows = Nil
    /\ orows = Nil
    /\ fs = <<>>

\* it.Close(), once; the iterators whose Close returns an error are an input
ItClose ==
    /\ stage = "iter"
    /\ \E failing \in SUBSET {"subIt", "nextIt"} :
         \E r \in {RecursiveClose(iter, failing)} :
            /\ iter' = r.it
            /\ log' = Append(log, [op |-> "Close", v |-> failing, ok |-> r.err = NoErr,
                                   ref |-> 0, tags |-> EmptyMap])
    /\ stage' = "closed"
    /\ UNCHANGED <<shape, optimizer, res, res2, srows, orows, fs, fresh>>

CloseStep == ItNext \/ ItClose

CloseSpec == CloseInit /\ [][CloseStep]_vars

\* how many times Close was called on step iterator id
ClosedTimes(it, id) == Cardinality({i \in 1..Len(it.closed) : it.closed[i] = id})

\* C23: after Next calls and one Close of a Recursive iterator, Close was
\* called exactly once on its base sub-iterator and on every step iterator it
\* made, whether or not one of these calls returned an error
C23_ClosedOnce ==
    (stage = "closed" /\ iter.k = "Recursive") =>
        /\ iter.subClosed = 1
        /\ \A id \in 1..iter.made : ClosedTimes(iter, id) = 1
\* the same when no Close returns an error
RecursiveClosedOnce ==
    (stage = "closed" /\ iter.k = "Recursive" /\ log[Len(log)].v = {}) =>
        /\ iter.subClosed = 1
        /\ \A id \in 1..iter.made : ClosedTimes(iter, id) = 1

\* ------------------------------------------------------------ paths
\* join(its...): the intersection of the shapes, a leading AllNodes dropped
RECURSIVE join(_)
join(its) ==
    IF Len(its) = 0 THEN Null
    ELSE IF its[1].k = "AllNodes" THEN join(Tail(its))
    ELSE Intersect(its)

\* iteratorMorphism(it).Apply(in)
iteratorMorphismApply(it, in) == join(<<iteratorShape(it), in>>)

\* the evaluations of a path made of the Iterator morphism alone: shape lists
\* the shape each evaluation gave, log the iterator trees built from them
MaxEvals == 2
PathIns == {AllNodes, Fixed(<<1>>), Fixed(<<1, 2>>)}
IterMorphInit ==
    /\ shape = <<>>
    /\ iter \in {NewFixed(<<1>>), NewFixed(<<1, 2>>), NewFixed(<<2, 1>>), NewNull}
    /\ stage = "path"
    /\ fresh = iter
    /\ log = <<>>
    /\ optimizer = NilOptimizer
    /\ res = Nil
    /\ res2 = Nil
    /\ srows = Nil
    /\ orows = Nil
    /\ fs = <<>>

\* one evaluation of the path: the morphism is applied to the incoming shape
ApplyIteratorMorphism ==
    /\ stage = "path"
    /\ Len(shape) < MaxEvals
    /\ \E in \in PathIns : shape' = Append(shape, iteratorMorphismApply(fresh, in))
    /\ UNCHANGED <<optimizer, res, res2, srows, orows, fs, stage, iter, fresh, log>>

\* shape[i].BuildIterator() on the Intersect join returned: the iterators of
\* its members in turn; handed is what the iteratorShape returned
PathBuildIterator ==
    /\ stage = "path"
    /\ Len(log) < MaxCalls
    /\ \E i \in 1..Len(shape) :
         \E r \in {iteratorShapeBuildIterator(shape[i].m[1])} :
            /\ shape' = [shape EXCEPT ![i].m[1] = r.s]
            /\ log' = Append(log, [op |-> "BuildIterator", v |-> i, handed |-> r.it,
                                   tree |-> BuildIterator(shape[i])])
    /\ UNCHANGED <<optimizer, res, res2, srows, orows, fs, stage, iter, fresh>>

IterMorphStep == ApplyIteratorMorphism \/ PathBuildIterator

IterMorphSpec == IterMorphInit /\ [][IterMorphStep]_vars

\* C24: of the BuildIterator calls on the shapes the Iterator morphism gave, the
\* first returns the supplied iterator and every later one, on the same shape or
\* on the shape of another evaluation, an iterator whose error is "iterator
\* already used in query"
C24_HandedOnce ==
    stage = "path" =>
        \A j \in 1..Len(log) :
            IF j = 1 THEN log[j].handed = fresh
            ELSE log[j].handed = NewError(ErrUsed)
\* the same for the calls on one shape
SameShapeHandedOnce ==
    stage = "path" =>
        \A j \in 1..Len(log) :
            IF \A m \in 1..(j - 1) : log[m].v # log[j].v THEN log[j].handed = fresh
            ELSE log[j].handed = NewError(ErrUsed)

\* ------------------------------------------------------------ And
\* andMorphism(p).Apply(in), p.Shape() given as ps
andMorphismApply(in, ps) == join(<<in, ps>>)

\* the operands: AllNodes and the non-empty Fixed sets of nodes of the store
AndOperands ==
    {AllNodes} \cup {Fixed(v) : v \in UNION {[1..n -> Refs] : n \in 1..MaxMembers}}

\* res is the incoming shape, res2 the shape of the path p
AndInit ==
    /\ shape = Nil
    /\ res \in AndOperands
    /\ res2 \in AndOperands
    /\ stage = "path"
    /\ iter = Nil
    /\ fresh = Nil
    /\ log = <<>>
    /\ optimizer = NilOptimizer
    /\ srows = Nil
    /\ orows = Nil
    /\ fs = <<>>

\* in.And(p): the morphism applied to the incoming shape
ApplyAnd ==
    /\ stage = "path"
    /\ shape' = andMorphismApply(res, res2)
    /\ stage' = "and"
    /\ UNCHANGED <<optimizer, res, res2, srows, orows, fs, iter, fresh, log>>

AndSpec == AndInit /\ [][ApplyAnd]_vars

\* the set of refs a shape denotes: those its iterator gives
Denotes(s) == {r.ref : r \in {Rows(s).rows[i] : i \in 1..Len(Rows(s).rows)}}

\* C25: And(p) applied to in, both taken from AllNodes and the non-empty Fixed
\* sets, gives a shape that denotes exactly the refs of in that are refs of
\* p.shape()
C25_AndIntersects ==
    stage = "and" => Denotes(shape) = Denotes(res) \cap Denotes(res2)
\* the same when not both operands are AllNodes
AndIntersectsFixed ==
    (stage = "and" /\ ~(res = AllNodes /\ res2 = AllNodes)) =>
        Denotes(shape) = Denotes(res) \cap Denotes(res2)

\* ------------------------------------------------------------ Skip and Limit
\* skipMorphism(v).Apply(in) and limitMorphism(v).Apply(in)
skipMorphismApply(v, in) == IF v = 0 THEN in ELSE Page(in, v, 0)
limitMorphismApply(v, in) == IF v <= 0 THEN in ELSE Page(in, 0, v)

\* a path of Skip and Limit morphisms applied one after the other to an
\* incoming shape: res is the shape before the last morphism, shape the one
\* after it, log the morphisms applied
PageCounts == (0 - MaxPage)..MaxPage
SkipLimitInit ==
    /\ shape \in {AllNodes, Fixed(<<1>>), Fixed(<<1, 2>>)}
    /\ res = Nil
    /\ res2 = Nil
    /\ stage = "path"
    /\ iter = Nil
    /\ fresh = Nil
    /\ log = <<>>
    /\ optimizer = NilOptimizer
    /\ srows = Nil
    /\ orows = Nil
    /\ fs = <<>>

Applied(op, v, out) ==
    /\ res' = shape
    /\ shape' = out
    /\ log' = Append(log, [op |-> op, v |-> v])
    /\ UNCHANGED <<optimizer, res2, srows, orows, fs, stage, iter, fresh>>

\* p.Skip(v)
ApplySkip ==
    /\ stage = "path"
    /\ Len(log) < MaxCalls
    /\ \E v \in PageCounts : Applied("Skip", v, skipMorphismApply(v, shape))

\* p.Limit(v)
ApplyLimit ==
    /\ stage = "path"
    /\ Len(log) < MaxCalls
    /\ \E v \in PageCounts : Applied("Limit", v, limitMorphismApply(v, shape))

SkipLimitStep == ApplySkip \/ ApplyLimit

SkipLimitSpec == SkipLimitInit /\ [][SkipLimitStep]_vars

\* every Page of the chain has skip >= 0 and limit >= 0
RECURSIVE PagesInRange(_)
PagesInRange(s) ==
    s.k = "Page" => s.skip >= 0 /\ s.limit >= 0 /\ PagesInRange(s.from)
\* Skip(0) and Limit(v), v <= 0, gave the incoming shape back
PassedThrough ==
    Len(log) > 0 =>
        LET c == log[Len(log)]
        IN  ((c.op = "Skip" /\ c.v = 0) \/ (c.op = "Limit" /\ c.v <= 0)) => shape = res

\* C26: every Page made by the Skip and Limit morphisms has skip >= 0 and
\* limit >= 0, and Skip(0) and Limit(n), n <= 0, return the incoming shape
C26_PageInRange ==
    stage = "path" => PagesInRange(shape) /\ PassedThrough
\* the same for the paths without a negative Skip
PageInRangeFromZero ==
    (stage = "path" /\ \A i \in 1..Len(log) : log[i].op = "Skip" => log[i].v >= 0)
        => PagesInRange(shape) /\ PassedThrough

\* ------------------------------------------------------------ LabelContext
\* a pathContext holds the label set; copy gives a context of its own with the
\* same label set
pathContext(labelSet) == [labelSet |-> labelSet]
ContextCopy(ctx) == [labelSet |-> ctx.labelSet]

\* labelContextMorphism(tags, via...): path is nil without via, Save{via, tags}
\* otherwise. Apply and Reversal give what they return (the shape for Apply, the
\* context out) and the received context as the call leaves it
labelContextPath(tags, via) == IF via = Nil THEN Nil ELSE Save(tags, via)
labelContextApply(path, in, ctx) ==
    [shape |-> in, out |-> [ContextCopy(ctx) EXCEPT !.labelSet = path], ctx |-> ctx]
labelContextReversal(path, ctx) ==
    [shape |-> Nil, out |-> ContextCopy(ctx), ctx |-> [ctx EXCEPT !.labelSet = path]]

\* res is the context handed to the morphism, fresh what it was before the
\* call, res2 the path of the morphism, shape the incoming shape, orows what the
\* call returned
LabelVias == {Nil, Fixed(<<1>>), Fixed(<<2>>), Fixed(<<1, 2>>)}
LabelPaths == {labelContextPath(tags, via) : tags \in {<<>>, <<"a">>}, via \in LabelVias}
LabelContextInit ==
    /\ shape \in {AllNodes, Fixed(<<1>>), Fixed(<<1, 2>>)}
    /\ res \in {pathContext(l) : l \in LabelPaths}
    /\ fresh = res
    /\ res2 \in LabelPaths
    /\ stage = "path"
    /\ iter = Nil
    /\ log = <<>>
    /\ optimizer = NilOptimizer
    /\ srows = Nil
    /\ orows = Nil
    /\ fs = <<>>

\* m.Apply(in, ctx)
ApplyLabelContext ==
    /\ stage = "path"
    /\ \E r \in {labelContextApply(res2, shape, res)} :
          /\ res' = r.ctx
          /\ orows' = r
    /\ stage' = "applied"
    /\ UNCHANGED <<shape, optimizer, res2, srows, fs, iter, fresh, log>>

\* m.Reversal(ctx)
ReverseLabelContext ==
    /\ stage = "path"
    /\ \E r \in {labelContextReversal(res2, res)} :
          /\ res' = r.ctx
          /\ orows' = r
    /\ stage' = "reversed"
    /\ UNCHANGED <<shape, optimizer, res2, srows, fs, iter, fresh, log>>

LabelContextStep == ApplyLabelContext \/ ReverseLabelContext

LabelContextSpec == LabelContextInit /\ [][LabelContextStep]_vars

\* C27: applying or reversing a LabelContext morphism leaves the context it
\* received as it was, the label set of the morphism is in the returned context,
\* and Apply returns the incoming shape
C27_ContextUntouched ==
    stage \in {"applied", "reversed"} =>
        /\ res = fresh
        /\ orows.out.labelSet = res2
        /\ stage = "applied" => orows.shape = shape
\* the same for Apply alone
LabelContextApplyUntouched ==
    stage = "applied" =>
        res = fresh /\ orows.out.labelSet = res2 /\ orows.shape = shape

\* ------------------------------------------------------------ Comparison
\* Float and Time values, held as integers
quadFloat(n) == [t |-> "Float", n |-> n]
quadTime(n) == [t |-> "Time", n |-> n]

\* quad.StringOf(v), the canonical string: the digit of an Int (0..9 here), the
\* string between double quotes, the IRI between < and >, the blank node after
\* _:, the bytes of a Raw as they are
StringOf(v) ==
    CASE v.t = "Int" -> <<48 + v.n>>
      [] v.t = "String" -> <<34>> \o v.b \o <<34>>
      [] v.t = "IRI" -> <<60>> \o v.b \o <<62>>
      [] v.t = "BNode" -> <<95, 58>> \o v.b
      [] v.t = "Raw" -> v.b

\* a < b on Go strings: the order of the bytes
RECURSIVE StrLess(_, _)
StrLess(a, b) ==
    IF Len(b) = 0 THEN FALSE
    ELSE IF Len(a) = 0 THEN TRUE
    ELSE IF Head(a) # Head(b) THEN Head(a) < Head(b)
    ELSE StrLess(Tail(a), Tail(b))

CmpOperators == {"CompareLT", "CompareLTE", "CompareGT", "CompareGTE", "CompareEQ", "CompareNEQ"}
runIntOp(a, op, b) ==
    CASE op = "CompareEQ" -> a = b
      [] op = "CompareNEQ" -> a # b
      [] op = "CompareLT" -> a < b
      [] op = "CompareLTE" -> a <= b
      [] op = "CompareGT" -> a > b
      [] op = "CompareGTE" -> a >= b
runStrOp(a, op, b) ==
    CASE op = "CompareEQ" -> a = b
      [] op = "CompareNEQ" -> a # b
      [] op = "CompareLT" -> StrLess(a, b)
      [] op = "CompareLTE" -> StrLess(a, b) \/ a = b
      [] op = "CompareGT" -> StrLess(b, a)
      [] op = "CompareGTE" -> StrLess(b, a) \/ a = b

\* Comparison{Op, Val}.FilterValue(qval): the answer and the error
Comparison(op, val) == [k |-> "Comparison", Op |-> op, Val |-> val]
ComparisonFilterValue(f, qval) ==
    CASE f.Val.t \in {"Int", "Float", "Time"} ->
           [ok |-> IF qval.t = f.Val.t THEN runIntOp(qval.n, f.Op, f.Val.n) ELSE FALSE,
            err |-> NoErr]
      [] f.Val.t \in {"String", "BNode", "IRI"} ->
           [ok |-> IF qval.t = f.Val.t THEN runStrOp(qval.b, f.Op, f.Val.b) ELSE FALSE,
            err |-> NoErr]
      [] OTHER ->
           [ok |-> runStrOp(StringOf(qval), f.Op, StringOf(f.Val)), err |-> NoErr]

\* res is the filter, res2 the value it is applied to, orows the answer
QuadStrings == {<<>>, <<49>>, <<97>>, <<34, 97, 34>>}
CmpValues ==
    {quadInt(1), quadInt(2)}
    \cup {quadString(b) : b \in QuadStrings \ {<<34, 97, 34>>}}
    \cup {quadIRI(<<97>>), quadBNode(<<97>>)}
    \cup {quadRaw(b) : b \in QuadStrings}
ComparisonInit ==
    /\ shape = Nil
    /\ res \in {Comparison(op, v) : op \in CmpOperators, v \in CmpValues}
    /\ res2 \in CmpValues
    /\ stage = "filter"
    /\ iter = Nil
    /\ fresh = Nil
    /\ log = <<>>
    /\ optimizer = NilOptimizer
    /\ srows = Nil
    /\ orows = Nil
    /\ fs = <<>>

\* f.FilterValue(qval)
ApplyComparison ==
    /\ stage = "filter"
    /\ orows' = ComparisonFilterValue(res, res2)
    /\ stage' = "filtered"
    /\ UNCHANGED <<shape, optimizer, res, res2, srows, fs, iter, fresh, log>>

ComparisonSpec == ComparisonInit /\ [][ApplyComparison]_vars

\* C28: Comparison(op, v) applied to a value of another type than v answers
\* what op gives on the canonical strings of the two values
C28_MixedByString ==
    (stage = "filtered" /\ res2.t # res.Val.t) =>
        orows.ok = runStrOp(StringOf(res2), res.Op, StringOf(res.Val))
\* what the types of the model give when they differ: no value passes a
\* comparison with an Int, a String, an IRI or a blank node
MixedNeverPasses ==
    (stage = "filtered" /\ res2.t # res.Val.t
        /\ res.Val.t \in {"Int", "String", "IRI", "BNode"}) => ~orows.ok

\* ------------------------------------------------------------ Wildcard
\* Filter.BuildIterator: the iterator of From wrapped in a ValueFilter for each
\* filter; a ValueFilterBuilder is asked for its filter first and left out
\* when it gives none
RECURSIVE FilterWrap(_, _, _)
FilterWrapOne(it, filters, i, f) ==
    IF f = Nil THEN FilterWrap(it, filters, i + 1)
    ELSE FilterWrap(NewValueFilter(it, f), filters, i + 1)
FilterWrap(it, filters, i) ==
    IF i > Len(filters) THEN it
    ELSE FilterWrapOne(it, filters, i,
                       IF filters[i].k = "Wildcard"
                       THEN WildcardBuildValueFilter(filters[i])
                       ELSE filters[i])
FilterBuildIterator(s) ==
    IF IsNullExpr(s.from) THEN NewNull
    ELSE FilterWrap(NewFixed(s.from.v), s.filters, 1)

\* res is the Wildcard filter, res2 the value, orows how the evaluation ended
MaxPattern == 2
WildcardPatterns ==
    {Wildcard(p) : p \in UNION {[1..n -> {97, Percent, Question}] : n \in 0..MaxPattern}}
WildcardStrings == UNION {[1..n -> {97, 98}] : n \in 0..MaxPattern}
WildcardValues ==
    {quadString(b) : b \in WildcardStrings} \cup {quadIRI(<<97>>), quadInt(1)}
WildcardInit ==
    /\ shape = Nil
    /\ res \in WildcardPatterns
    /\ res2 \in WildcardValues
    /\ stage = "filter"
    /\ iter = Nil
    /\ fresh = Nil
    /\ log = <<>>
    /\ optimizer = NilOptimizer
    /\ srows = Nil
    /\ orows = Nil
    /\ fs = <<>>

\* f.FilterValue(v)
ApplyWildcard ==
    /\ stage = "filter"
    /\ orows' = FilterValue(res, res2)
    /\ stage' = "direct"
    /\ UNCHANGED <<shape, optimizer, res, res2, srows, fs, iter, fresh, log>>

\* it := Filter{From: Values{v}, Filters: {f}}.BuildIterator()
BuildWildcard ==
    /\ stage = "filter"
    /\ shape' = Filter(Values(<<res2>>), <<res>>)
    /\ iter' = FilterBuildIterator(shape')
    /\ stage' = "built"
    /\ UNCHANGED <<optimizer, res, res2, srows, orows, fs, fresh, log>>

\* it.Next(ctx) on the iterator built: the filter is asked about the one value
NextWildcard ==
    /\ stage = "built"
    /\ IF iter.k = "ValueFilter" /\ Crashed(FilterValue(iter.filter, res2))
       THEN orows' = FilterValue(iter.filter, res2) /\ iter' = iter
       ELSE \E r \in {IterNext(iter)} :
               orows' = [ok |-> r.ok, err |-> Err(r.it)] /\ iter' = r.it
    /\ stage' = "evaluated"
    /\ UNCHANGED <<shape, optimizer, res, res2, srows, fs, fresh, log>>

WildcardStep == ApplyWildcard \/ BuildWildcard \/ NextWildcard

WildcardSpec == WildcardInit /\ [][WildcardStep]_vars

\* C30: a Wildcard filter evaluated on a value, by FilterValue or by Next on
\* the iterator Filter.BuildIterator gives, ends with a boolean and no error,
\* for every pattern, the empty one and those of % alone included
C30_WildcardAnswers ==
    stage \in {"direct", "evaluated"} =>
        ~Crashed(orows) /\ orows.ok \in BOOLEAN /\ orows.err = NoErr
\* the same for the patterns that are neither empty nor made of % alone
WildcardAnswersOthers ==
    (stage \in {"direct", "evaluated"} /\ ~OnlyPercent(res.Pattern)) =>
        ~Crashed(orows) /\ orows.ok \in BOOLEAN /\ orows.err = NoErr

\* ------------------------------------------------------------ Reset
\* right after a Reset a drain by Next gives the results, in order, that the
\* drain of the iterator as built gives
ResetAsFresh(kinds) ==
    (stage = "iter" /\ fresh.k \in kinds /\ Len(log) >= 1 /\ log[Len(log)].op = "Reset") =>
        RowRefs(DrainFrom(iter)) = RowRefs(DrainFrom(fresh))

\* C29: for Fixed, Unique, Skip, Count and Recursive, a drain by Next after a
\* Reset returns the results of the first drain of a new iterator over the same
\* input, whatever Next, NextPath and Contains calls came before the Reset
C29_ResetAsFresh == ResetAsFresh({"Fixed", "Unique", "Skip", "Count", "Recursive"})
\* the same without Recursive
ResetAsFreshPlain == ResetAsFresh({"Fixed", "Unique", "Skip"})
ResetAsFreshCount == ResetAsFresh({"Count"})
====
